---- MODULE Spec2Model ----
(***************************************************************************)
(* Model of the lookup library: the path navigator (Exists, Get, Create,   *)
(* Set and their shared recursive walk, process), the container coercion   *)
(* helper (setValue), the path splitter (split) and the type-directed      *)
(* parser (Parse, Split, convert).                                         *)
(*                                                                         *)
(* Text is a sequence of one-character strings, so that splitting,         *)
(* trimming, lower-casing and number parsing are computed rune by rune.    *)
(* A Go value is a record tagged with the name of its type; the type table *)
(* below plays the part of reflect.Type.                                   *)
(***************************************************************************)
EXTENDS Integers, Sequences, FiniteSets, TLC

(***************************************************************************)
(* Text helpers (package strings / strconv as used by the library)         *)
(***************************************************************************)

UpperRunes == <<"A","B","C","D","E","F","G","H","I","J","K","L","M",
                "N","O","P","Q","R","S","T","U","V","W","X","Y","Z">>

LowerRunes == <<"a","b","c","d","e","f","g","h","i","j","k","l","m",
                "n","o","p","q","r","s","t","u","v","w","x","y","z">>

DigitRunes == <<"0","1","2","3","4","5","6","7","8","9">>

\* the backtick rune (the lexer of TLA+ has no literal for it)
Backtick == "BACKTICK"

QuoteRunes == {"\"", "'", Backtick}

SpaceRunes == {" ", "\t", "\n", "\r"}

\* strings.ToLower, one rune
LowerRune(r) ==
    IF \E i \in 1..26 : UpperRunes[i] = r
    THEN LowerRunes[CHOOSE i \in 1..26 : UpperRunes[i] = r]
    ELSE r

\* strings.ToLower
ToLower(s) == [i \in 1..Len(s) |-> LowerRune(s[i])]

RECURSIVE TrimLeft(_, _)
TrimLeft(s, cutset) ==
    IF s # <<>> /\ Head(s) \in cutset THEN TrimLeft(Tail(s), cutset) ELSE s

RECURSIVE TrimRight(_, _)
TrimRight(s, cutset) ==
    IF s # <<>> /\ s[Len(s)] \in cutset
    THEN TrimRight(SubSeq(s, 1, Len(s) - 1), cutset)
    ELSE s

\* strings.Trim
Trim(s, cutset) == TrimRight(TrimLeft(s, cutset), cutset)

IsDigit(r) == \E i \in 1..10 : DigitRunes[i] = r

DigitVal(r) == (CHOOSE i \in 1..10 : DigitRunes[i] = r) - 1

RECURSIVE DigitsVal(_)
DigitsVal(s) ==
    IF s = <<>> THEN 0
    ELSE 10 * DigitsVal(SubSeq(s, 1, Len(s) - 1)) + DigitVal(s[Len(s)])

\* the decimal grammar shared by strconv.Atoi and strconv.ParseInt:
\* an optional sign followed by at least one digit
IntSyntaxOk(s) ==
    LET body == IF s # <<>> /\ Head(s) \in {"+", "-"} THEN Tail(s) ELSE s
    IN  body # <<>> /\ \A i \in 1..Len(body) : IsDigit(body[i])

IntSyntaxVal(s) ==
    IF Head(s) = "-" THEN 0 - DigitsVal(Tail(s))
    ELSE IF Head(s) = "+" THEN DigitsVal(Tail(s))
    ELSE DigitsVal(s)

\* strconv.Atoi: [ok, n]
Atoi(s) ==
    IF IntSyntaxOk(s) THEN [ok |-> TRUE, n |-> IntSyntaxVal(s)]
    ELSE [ok |-> FALSE, n |-> 0]

\* strings.HasPrefix
HasPrefix(s, p) == Len(s) >= Len(p) /\ SubSeq(s, 1, Len(p)) = p

\* the runes of a text joined into one string, as "+" and %v put a name into
\* an error message
RECURSIVE Text(_)
Text(runes) == IF runes = <<>> THEN "" ELSE Head(runes) \o Text(Tail(runes))

\* strings.Split(s, sep) for a one-rune separator: every occurrence is a boundary
RECURSIVE StringsSplit(_, _, _, _)
StringsSplit(s, sep, i, cur) ==
    IF i > Len(s) THEN <<cur>>
    ELSE IF s[i] = sep THEN <<cur>> \o StringsSplit(s, sep, i + 1, <<>>)
    ELSE StringsSplit(s, sep, i + 1, Append(cur, s[i]))

(***************************************************************************)
(* Path splitter                                                           *)
(***************************************************************************)

\* the closure handed to strings.FieldsFunc in split: it is called once per
\* rune, in order, and toggles quoted / braces before it answers
RECURSIVE splitFlags(_, _, _, _)
splitFlags(path, i, quoted, braces) ==
    IF i > Len(path) THEN <<>>
    ELSE LET r == path[i]
             q == IF r \in QuoteRunes THEN ~quoted ELSE quoted
             b == IF r = "[" THEN TRUE ELSE IF r = "]" THEN FALSE ELSE braces
         IN  <<(~b /\ ~q /\ r = ".")>> \o splitFlags(path, i + 1, q, b)

\* strings.FieldsFunc: the maximal runs of runes the predicate rejects;
\* empty runs are not fields
RECURSIVE FieldsFunc(_, _, _, _)
FieldsFunc(s, flags, i, cur) ==
    IF i > Len(s) THEN (IF cur = <<>> THEN <<>> ELSE <<cur>>)
    ELSE IF flags[i]
         THEN (IF cur = <<>> THEN <<>> ELSE <<cur>>) \o FieldsFunc(s, flags, i + 1, <<>>)
         ELSE FieldsFunc(s, flags, i + 1, Append(cur, s[i]))

split(path) ==
    LET parts == FieldsFunc(path, splitFlags(path, 1, FALSE, FALSE), 1, <<>>)
    IN  [i \in 1..Len(parts) |-> Trim(parts[i], QuoteRunes \cup SpaceRunes)]

\* array.FindStringSubmatch(fn) for array = (.*)\[(.*)\] : the leftmost match,
\* both groups greedy, '.' not matching a newline; the text after the last
\* ']' is not part of the match
arrayMatches(fn) ==
    LET NoNL(a, b) == \A j \in a..b : fn[j] # "\n"
        Pick(Cand) ==
            IF Cand = {} THEN [ok |-> FALSE, fn |-> fn, key |-> <<>>]
            ELSE LET st == CHOOSE a \in {c[1] : c \in Cand} :
                              \A c \in Cand : a <= c[1]
                     p  == CHOOSE a \in {c[2] : c \in {d \in Cand : d[1] = st}} :
                              \A c \in {d \in Cand : d[1] = st} : a >= c[2]
                     q  == CHOOSE a \in {c[3] : c \in {d \in Cand : d[1] = st /\ d[2] = p}} :
                              \A c \in {d \in Cand : d[1] = st /\ d[2] = p} : a >= c[3]
                 IN  [ok |-> TRUE, fn |-> SubSeq(fn, st, p - 1),
                      key |-> SubSeq(fn, p + 1, q - 1)]
    IN  Pick({c \in (1..(Len(fn) + 1)) \X (1..Len(fn)) \X (1..Len(fn)) :
                /\ c[1] <= c[2] /\ c[2] < c[3]
                /\ fn[c[2]] = "[" /\ fn[c[3]] = "]"
                /\ NoNL(c[1], c[3])})

(***************************************************************************)
(* Generic delimited splitter                                              *)
(***************************************************************************)

\* the loop of Split: g is the record of the five group flags
RECURSIVE SplitLoop(_, _, _, _, _)
SplitLoop(txt, sep, i, start, g) ==
    IF i > Len(txt) THEN <<SubSeq(txt, start, Len(txt))>>
    ELSE LET r == txt[i]
             noQ == ~g.inQuote /\ ~g.inSingleQuote /\ ~g.inBacktick
         IN  IF r = "\"" THEN
                 SplitLoop(txt, sep, i + 1, start,
                     IF ~g.inSingleQuote /\ ~g.inBacktick
                     THEN [g EXCEPT !.inQuote = ~g.inQuote] ELSE g)
             ELSE IF r = "'" THEN
                 SplitLoop(txt, sep, i + 1, start,
                     IF ~g.inQuote /\ ~g.inBacktick
                     THEN [g EXCEPT !.inSingleQuote = ~g.inSingleQuote] ELSE g)
             ELSE IF r = Backtick THEN
                 SplitLoop(txt, sep, i + 1, start,
                     IF ~g.inQuote /\ ~g.inSingleQuote
                     THEN [g EXCEPT !.inBacktick = ~g.inBacktick] ELSE g)
             ELSE IF r = "[" THEN
                 SplitLoop(txt, sep, i + 1, start,
                     IF noQ THEN [g EXCEPT !.inBracket = TRUE] ELSE g)
             ELSE IF r = "]" THEN
                 SplitLoop(txt, sep, i + 1, start,
                     IF noQ THEN [g EXCEPT !.inBracket = FALSE] ELSE g)
             ELSE IF r = "{" THEN
                 SplitLoop(txt, sep, i + 1, start,
                     IF noQ THEN [g EXCEPT !.inBrace = TRUE] ELSE g)
             ELSE IF r = "}" THEN
                 SplitLoop(txt, sep, i + 1, start,
                     IF noQ THEN [g EXCEPT !.inBrace = FALSE] ELSE g)
             ELSE IF r = sep /\ noQ /\ ~g.inBracket /\ ~g.inBrace THEN
                 <<SubSeq(txt, start, i - 1)>> \o SplitLoop(txt, sep, i + 1, i + 1, g)
             ELSE SplitLoop(txt, sep, i + 1, start, g)

Split(txt, sep) ==
    SplitLoop(txt, sep, 1, 1,
        [inQuote |-> FALSE, inSingleQuote |-> FALSE, inBacktick |-> FALSE,
         inBracket |-> FALSE, inBrace |-> FALSE])

(***************************************************************************)
(* Types (reflect.Type) and values (reflect.Value / any)                   *)
(*                                                                         *)
(* The records the navigator is exercised on:                              *)
(*   type Address struct { City string; Zip int `default:"99"` }           *)
(*   type Level int, with a method String() string                         *)
(*   type User struct {                                                    *)
(*       Name string; Age *int; Address *Address; Tags []string            *)
(*       Codes [2]int; Meta map[string]int; secret int                     *)
(*       Props map[string]any; Label fmt.Stringer; Labels []fmt.Stringer   *)
(*       Index map[int]string; note int; Note string }                     *)
(***************************************************************************)

StrV(s) == [t |-> "string", s |-> s]

IntV(n) == [t |-> "int", n |-> n]

\* a value of the named integer type Level
LevelV(n) == [t |-> "Level", n |-> n]

\* the nil interface value (a null caller value, a null result)
Nil == [t |-> "nil"]

NoErr == "nil"

TypeInfo(t) ==
    CASE t = "string"         -> [kind |-> "string"]
      [] t = "int"            -> [kind |-> "int", bits |-> 64]
      [] t = "int64"          -> [kind |-> "int", bits |-> 64]
      [] t = "*int"           -> [kind |-> "ptr", elem |-> "int"]
      [] t = "*string"        -> [kind |-> "ptr", elem |-> "string"]
      [] t = "Address"        -> [kind |-> "struct"]
      [] t = "*Address"       -> [kind |-> "ptr", elem |-> "Address"]
      [] t = "[]string"       -> [kind |-> "slice", elem |-> "string"]
      [] t = "[]int"          -> [kind |-> "slice", elem |-> "int"]
      [] t = "[2]int"         -> [kind |-> "array", elem |-> "int", len |-> 2]
      [] t = "map[string]int" -> [kind |-> "map", key |-> "string", elem |-> "int"]
      [] t = "User"           -> [kind |-> "struct"]
      [] t = "Level"          -> [kind |-> "int", bits |-> 64]
      [] t = "*Level"         -> [kind |-> "ptr", elem |-> "Level"]
      [] t = "any"            -> [kind |-> "interface"]
      [] t = "Stringer"       -> [kind |-> "interface"]
      [] t = "map[string]any" -> [kind |-> "map", key |-> "string", elem |-> "any"]
      [] t = "[]Stringer"     -> [kind |-> "slice", elem |-> "Stringer"]
      [] t = "map[int]string" -> [kind |-> "map", key |-> "int", elem |-> "string"]
      [] t = "map[string]string" -> [kind |-> "map", key |-> "string", elem |-> "string"]
      [] t = "*User"          -> [kind |-> "ptr", elem |-> "User"]
      [] OTHER                -> [kind |-> "invalid"]

Kind(t) == TypeInfo(t).kind

Elem(t) == TypeInfo(t).elem

\* reflect.PointerTo for the pointer types of the table
PointerTo(t) ==
    CASE t = "int" -> "*int"
      [] t = "string" -> "*string"
      [] t = "Address" -> "*Address"
      [] t = "User" -> "*User"
      [] t = "Level" -> "*Level"
      [] OTHER -> "invalid"

\* the declared fields of a record type, in declaration order
Fields(t) ==
    CASE t = "User" ->
           << [id |-> "Name",    name |-> <<"N","a","m","e">>, exported |-> TRUE,
               type |-> "string", tag |-> FALSE],
              [id |-> "Age",     name |-> <<"A","g","e">>, exported |-> TRUE,
               type |-> "*int", tag |-> FALSE],
              [id |-> "Address", name |-> <<"A","d","d","r","e","s","s">>, exported |-> TRUE,
               type |-> "*Address", tag |-> FALSE],
              [id |-> "Tags",    name |-> <<"T","a","g","s">>, exported |-> TRUE,
               type |-> "[]string", tag |-> FALSE],
              [id |-> "Codes",   name |-> <<"C","o","d","e","s">>, exported |-> TRUE,
               type |-> "[2]int", tag |-> FALSE],
              [id |-> "Meta",    name |-> <<"M","e","t","a">>, exported |-> TRUE,
               type |-> "map[string]int", tag |-> FALSE],
              [id |-> "secret",  name |-> <<"s","e","c","r","e","t">>, exported |-> FALSE,
               type |-> "int", tag |-> FALSE],
              [id |-> "Props",   name |-> <<"P","r","o","p","s">>, exported |-> TRUE,
               type |-> "map[string]any", tag |-> FALSE],
              [id |-> "Label",   name |-> <<"L","a","b","e","l">>, exported |-> TRUE,
               type |-> "Stringer", tag |-> FALSE],
              [id |-> "Labels",  name |-> <<"L","a","b","e","l","s">>, exported |-> TRUE,
               type |-> "[]Stringer", tag |-> FALSE],
              [id |-> "Index",   name |-> <<"I","n","d","e","x">>, exported |-> TRUE,
               type |-> "map[int]string", tag |-> FALSE],
              [id |-> "note",    name |-> <<"n","o","t","e">>, exported |-> FALSE,
               type |-> "int", tag |-> FALSE],
              [id |-> "Note",    name |-> <<"N","o","t","e">>, exported |-> TRUE,
               type |-> "string", tag |-> FALSE] >>
      [] t = "Address" ->
           << [id |-> "City", name |-> <<"C","i","t","y">>, exported |-> TRUE,
               type |-> "string", tag |-> FALSE],
              [id |-> "Zip",  name |-> <<"Z","i","p">>, exported |-> TRUE,
               type |-> "int", tag |-> TRUE, default |-> IntV(99)] >>
      [] OTHER -> <<>>

FieldIds(t) == {Fields(t)[i].id : i \in 1..Len(Fields(t))}

FieldOf(t, id) == Fields(t)[CHOOSE i \in 1..Len(Fields(t)) : Fields(t)[i].id = id]

\* reflect.Zero
RECURSIVE Zero(_)
Zero(t) ==
    CASE Kind(t) = "string" -> StrV(<<>>)
      [] Kind(t) = "int"    -> [t |-> t, n |-> 0]
      [] Kind(t) = "ptr"    -> [t |-> t, nil |-> TRUE]
      [] Kind(t) = "slice"  -> [t |-> t, nil |-> TRUE, e |-> <<>>]
      [] Kind(t) = "array"  -> [t |-> t, e |-> [i \in 1..TypeInfo(t).len |-> Zero(Elem(t))]]
      [] Kind(t) = "map"    -> [t |-> t, nil |-> TRUE, m |-> <<>>]
      [] Kind(t) = "struct" -> [t |-> t, fv |-> [id \in FieldIds(t) |-> Zero(FieldOf(t, id).type)]]
      \* the zero value of an interface type holds nothing
      [] OTHER              -> Nil

\* variant: declared defaults are not applied
SetDefaultsMut(v) == v

\* defaults.Set: a zero-valued field that declares a default gets it
SetDefaults(v) ==
    [v EXCEPT !.fv = [id \in FieldIds(v.t) |->
        IF FieldOf(v.t, id).tag /\ v.fv[id] = Zero(FieldOf(v.t, id).type)
        THEN FieldOf(v.t, id).default
        ELSE v.fv[id]]]

\* utils.NewWithDefaultsOf: a usable default of the type. A pointer type
\* yields a pointer to a fresh default, a map type an empty map, a record
\* type a record with its declared defaults.
RECURSIVE NewWithDefaultsOf(_)
NewWithDefaultsOf(t) ==
    CASE Kind(t) = "ptr"    -> [t |-> t, nil |-> FALSE, p |-> NewWithDefaultsOf(Elem(t))]
      [] Kind(t) = "map"    -> [t |-> t, nil |-> FALSE, m |-> <<>>]
      [] Kind(t) = "slice"  -> [t |-> t, nil |-> FALSE, e |-> <<>>]
      [] Kind(t) = "struct" -> SetDefaults(Zero(t))
      [] OTHER              -> Zero(t)

\* utils.IsNil
IsNil(v) ==
    \/ v = Nil
    \/ Kind(v.t) \in {"ptr", "slice", "map"} /\ v.nil

\* utils.IsPointer
IsPointer(v) == v # Nil /\ Kind(v.t) = "ptr"

\* utils.IsStruct: a record, or a reference that leads to one
RECURSIVE IsStruct(_)
IsStruct(v) ==
    /\ v # Nil
    /\ \/ Kind(v.t) = "struct"
       \/ Kind(v.t) = "ptr" /\ ~v.nil /\ IsStruct(v.p)

\* utils.CopyToHeap
CopyToHeap(v) == [t |-> PointerTo(v.t), nil |-> FALSE, p |-> v]

\* utils.FromPointer
FromPointer(v) == IF IsPointer(v) /\ ~v.nil THEN v.p ELSE v

\* the result of string(rune(n)) for the code points the model meets
RuneOf(n) ==
    IF n \in 48..57 THEN DigitRunes[n - 47]
    ELSE IF n \in 65..90 THEN UpperRunes[n - 64]
    ELSE IF n \in 97..122 THEN LowerRunes[n - 96]
    ELSE IF n \in 0..31 THEN <<"U+00", "U+01", "U+02", "U+03", "U+04", "U+05", "U+06",
                               "U+07", "U+08", "U+09", "U+0A", "U+0B", "U+0C", "U+0D",
                               "U+0E", "U+0F", "U+10", "U+11", "U+12", "U+13", "U+14",
                               "U+15", "U+16", "U+17", "U+18", "U+19", "U+1A", "U+1B",
                               "U+1C", "U+1D", "U+1E", "U+1F">>[n + 1]
    ELSE "U+FFFD"

\* variant: every type passes for every interface
ImplementsMut(t, iface) == TRUE

\* reflect.Type.Implements: every type satisfies the empty method set of
\* any; String() is in the method set of Level and of *Level
Implements(t, iface) ==
    \/ iface = "any"
    \/ iface = "Stringer" /\ t \in {"Level", "*Level"}

\* reflect.Type.ConvertibleTo on the types of the table
ConvertibleTo(from, to) ==
    \/ from = to
    \/ Kind(from) = "int" /\ Kind(to) \in {"int", "string"}
    \/ Kind(to) = "interface" /\ Implements(from, to)

\* reflect.Value.Convert
Convert(v, to) ==
    IF v.t = to THEN v
    ELSE IF Kind(to) = "string" THEN StrV(<<RuneOf(v.n)>>)
    ELSE [t |-> to, n |-> v.n]

(***************************************************************************)
(* Type-directed parser                                                    *)
(***************************************************************************)

Ok(v) == [val |-> v, err |-> NoErr]

Fail(e) == [val |-> Nil, err |-> e]

\* strconv.ParseInt(txt, 10, bits): the value as an int64, or a syntax or
\* range error. Texts of the model are far shorter than the 19 digits a
\* 64-bit overflow needs, so only the narrower widths are range-checked.
ParseInt(txt, bits) ==
    LET InRange(n) ==
            IF bits < 32 /\ (n < 0 - 2 ^ (bits - 1) \/ n > 2 ^ (bits - 1) - 1)
            THEN Fail("value out of range")
            ELSE Ok([t |-> "int64", n |-> n])
    IN  IF ~IntSyntaxOk(txt) THEN Fail("invalid syntax")
        ELSE InRange(IntSyntaxVal(txt))

\* the value a case of Parse returns for a pointer type and for a plain type
Boxed(v, isPointer) == IF isPointer THEN CopyToHeap(v) ELSE v

convert(v, t, isPointer) ==
    IF t = v.t THEN Ok(Boxed(v, isPointer))
    ELSE Ok(Boxed(IF ConvertibleTo(v.t, t) THEN Convert(v, t) ELSE v, isPointer))

\* json.Unmarshal([]byte(txt), val) into a record: of the texts the model
\* meets only "{}" and "null" are documents that decode into a record, and
\* both leave it as it is; every other text is a decode error
JSONText == { <<"{", "}">>, <<"n", "u", "l", "l">> }

jsonUnmarshal(txt, val) ==
    IF txt \in JSONText THEN Ok(val) ELSE Fail("json: cannot unmarshal")

\* hook.Parse(txt): a hook either fails or builds a value of its target type
\* from the text
HookParse(hook, txt) ==
    IF hook.fails THEN Fail("hook error")
    ELSE Ok([t |-> hook.To, by |-> hook.id, s |-> txt])

\* the first error among a sequence of results, or NoErr
FirstErr(rs) ==
    IF \E i \in 1..Len(rs) : rs[i].err # NoErr
    THEN rs[CHOOSE i \in 1..Len(rs) :
              rs[i].err # NoErr /\ \A j \in 1..(i - 1) : rs[j].err = NoErr].err
    ELSE NoErr

\* s.SetMapIndex for every parsed pair, in order: a later pair overrides
RECURSIVE MapOfPairs(_, _)
MapOfPairs(ks, vs) ==
    IF ks = <<>> THEN <<>>
    ELSE LET n    == Len(ks)
             rest == MapOfPairs(SubSeq(ks, 1, n - 1), SubSeq(vs, 1, n - 1))
         IN  [x \in DOMAIN rest \cup {ks[n]} |-> IF x = ks[n] THEN vs[n] ELSE rest[x]]

\* the key of a map entry: the text of a string key, the number of an int key
KeyOf(k) == IF Kind(k.t) = "string" THEN k.s ELSE k.n

RECURSIVE Parse(_, _, _)

\* the recursive Parse of every part into the type e, without hooks
ParseAll(parts, e) == [i \in 1..Len(parts) |-> Parse(parts[i], e, <<>>)]

\* the values of a sequence of results
Vals(rs) == [i \in 1..Len(rs) |-> rs[i].val]

\* the end of the composite cases: the first error met, or convert(s)
Composite(err, s, t, isPointer) ==
    IF err # NoErr THEN Fail(err) ELSE convert(s, t, isPointer)

\* Parse, integer cases: strconv.ParseInt, then convert
parseInt(r, t, isPointer) ==
    IF r.err # NoErr THEN r ELSE convert(r.val, t, isPointer)

\* variant: a piece that fails to parse is left out
parseSliceMut(rs, t, isPointer) ==
    Composite(NoErr, [t |-> t, nil |-> FALSE,
                      e |-> Vals(SelectSeq(rs, LAMBDA r : r.err = NoErr))],
              t, isPointer)

\* Parse, reflect.Slice: rs are the results of the elements
parseSlice(rs, t, isPointer) ==
    Composite(FirstErr(rs), [t |-> t, nil |-> FALSE, e |-> Vals(rs)], t, isPointer)

\* Parse, reflect.Array: the number of parts is checked before any is parsed
parseArray(parts, t, isPointer) ==
    LET Elems(rs) == Composite(FirstErr(rs), [t |-> t, e |-> Vals(rs)], t, isPointer)
    IN  IF Len(parts) # TypeInfo(t).len THEN Fail("expected N elements, got M")
        ELSE Elems(ParseAll(parts, Elem(t)))

\* Parse, reflect.Map: pairs are the parts that split into exactly two at "="
parseMap(pairs, t, isPointer) ==
    LET \* key and value results interleaved in the order the loop meets them
        Both(krs, vrs) ==
            Composite(FirstErr([i \in 1..(2 * Len(pairs)) |->
                                   IF i % 2 = 1 THEN krs[(i + 1) \div 2] ELSE vrs[i \div 2]]),
                      [t |-> t, nil |-> FALSE,
                       m |-> MapOfPairs([i \in 1..Len(pairs) |-> KeyOf(krs[i].val)],
                                        Vals(vrs))],
                      t, isPointer)
    IN  Both(ParseAll([i \in 1..Len(pairs) |-> pairs[i][1]], TypeInfo(t).key),
             ParseAll([i \in 1..Len(pairs) |-> pairs[i][2]], Elem(t)))

\* Parse, reflect.Struct: utils.NewOf, then json.Unmarshal
parseStruct(r, isPointer) ==
    IF r.err # NoErr THEN r ELSE Ok(Boxed(r.val, isPointer))

\* Parse, the switch on t.Kind() after a pointer type has been unwrapped
parseKind(txt, t, kind, isPointer) ==
    CASE kind = "string" -> Ok(Boxed([t |-> t, s |-> txt], isPointer))
      [] kind = "int" -> parseInt(ParseInt(txt, TypeInfo(t).bits), t, isPointer)
      [] kind = "slice" ->
           IF Len(txt) = 0
           THEN Ok(Boxed([t |-> t, nil |-> FALSE, e |-> <<>>], isPointer))
           ELSE parseSlice(ParseAll(Split(txt, ","), Elem(t)), t, isPointer)
      [] kind = "array" ->
           IF Len(txt) = 0 THEN Ok(Boxed(Zero(t), isPointer))
           ELSE parseArray(Split(txt, ","), t, isPointer)
      [] kind = "map" ->
           parseMap(SelectSeq([i \in 1..Len(Split(txt, ",")) |->
                                  StringsSplit(Split(txt, ",")[i], "=", 1, <<>>)],
                              LAMBDA kv : Len(kv) = 2),
                    t, isPointer)
      [] kind = "struct" ->
           parseStruct(jsonUnmarshal(txt, SetDefaults(Zero(t))), isPointer)
      [] OTHER -> Fail("unsupported data type")

\* variant: the last matching hook is used instead of the first
ParseMut(txt, t0, hooks) ==
    IF \E i \in 1..Len(hooks) : hooks[i].To = t0
    THEN HookParse(hooks[CHOOSE i \in 1..Len(hooks) :
                       hooks[i].To = t0 /\ \A j \in (i + 1)..Len(hooks) : hooks[j].To # t0], txt)
    ELSE IF t0 = "string" THEN Ok(StrV(txt))
    ELSE IF t0 = "*string" THEN Ok(CopyToHeap(StrV(txt)))
    ELSE IF Kind(t0) = "ptr" THEN parseKind(txt, Elem(t0), Kind(Elem(t0)), TRUE)
    ELSE parseKind(txt, t0, Kind(t0), FALSE)

Parse(txt, t0, hooks) ==
    IF \E i \in 1..Len(hooks) : hooks[i].To = t0
    THEN HookParse(hooks[CHOOSE i \in 1..Len(hooks) :
                       hooks[i].To = t0 /\ \A j \in 1..(i - 1) : hooks[j].To # t0], txt)
    ELSE IF t0 = "string" THEN Ok(StrV(txt))
    ELSE IF t0 = "*string" THEN Ok(CopyToHeap(StrV(txt)))
    ELSE IF Kind(t0) = "ptr" THEN parseKind(txt, Elem(t0), Kind(Elem(t0)), TRUE)
    ELSE parseKind(txt, t0, Kind(t0), FALSE)

(***************************************************************************)
(* Container coercion helper                                               *)
(***************************************************************************)

\* setValue(field, e, value, set). ft is field.Type(), canSet is
\* field.CanSet(). The result tells whether the set callback ran (set) and
\* with which value (f). A panic inside is recovered: one that carries an
\* error becomes err, any other leaves the zero results (nil, nil error).
setValue(ft, canSet, e, value) ==
    LET Parsed(r) ==
            IF r.err # NoErr
            THEN [val |-> Nil, err |-> r.err, set |-> FALSE, f |-> Nil]
            ELSE [val |-> r.val, err |-> NoErr, set |-> TRUE, f |-> r.val]
        Converted(f) ==
            IF f.t = e
            THEN [val |-> f, err |-> NoErr, set |-> TRUE, f |-> f]
            \* the callback panics with a plain string (value not assignable)
            ELSE [val |-> Nil, err |-> NoErr, set |-> FALSE, f |-> Nil]
    IN
    IF ~canSet
    THEN [val |-> Nil, err |-> "field isn't addressable", set |-> FALSE, f |-> Nil]
    ELSE IF value = Nil
    \* reflect.ValueOf(nil) is the zero Value: f.Type() and f.CanConvert()
    \* panic with a *reflect.ValueError, which is an error
    THEN [val |-> Nil, err |-> "reflect: call of reflect.Value.Type on zero Value",
          set |-> FALSE, f |-> Nil]
    ELSE IF Kind(ft) = "interface"
    THEN (IF Implements(value.t, e)
          THEN [val |-> value, err |-> NoErr, set |-> TRUE, f |-> value]
          ELSE [val |-> Nil, err |-> "doesn't implement", set |-> FALSE, f |-> Nil])
    ELSE IF Kind(value.t) = "string" THEN Parsed(Parse(value.s, e, <<>>))
    ELSE IF ConvertibleTo(value.t, ft) THEN Converted(Convert(value, ft))
    ELSE IF value.t # e
    THEN [val |-> Nil, err |-> "invalid data type", set |-> FALSE, f |-> Nil]
    ELSE [val |-> value, err |-> NoErr, set |-> TRUE, f |-> value]

(***************************************************************************)
(* Path navigator                                                          *)
(***************************************************************************)

\* a return statement of process: the result, the error, and the record v
\* as the walk has left it
Ret(val, err, v) == [done |-> TRUE, val |-> val, err |-> err, v |-> v]

\* process goes on past the bracket handling with f as the resolved child;
\* loc says where f lives in v, fCanSet whether f is addressable
Cont(val, v, f, fCanSet, loc) ==
    [done |-> FALSE, val |-> val, err |-> NoErr, v |-> v, f |-> f,
     fCanSet |-> fCanSet, loc |-> loc]

\* variant: no mode is treated as the non-constructing one
isExistsMut(mode) == FALSE

\* mode == exists: the mode that must not construct anything
isExists(mode) == mode = "exists"

\* variant: the store into the field is dropped
SetFieldMut(v, id, f) == v

\* field.Set(f) on the field id of the record v
SetField(v, id, f) == [v EXCEPT !.fv[id] = f]

\* variant: the store into a map entry is dropped
PutMut(v, loc, f) ==
    CASE loc.in = "field" -> SetField(v, loc.id, f)
      [] loc.in = "elem"  -> [v EXCEPT !.fv[loc.id].e[loc.index + 1] = f]
      [] loc.in = "entry" -> v

\* v with the child at loc replaced: field.Set, i.Set or f.SetMapIndex
Put(v, loc, f) ==
    CASE loc.in = "field" -> SetField(v, loc.id, f)
      [] loc.in = "elem"  -> [v EXCEPT !.fv[loc.id].e[loc.index + 1] = f]
      [] loc.in = "entry" ->
           [v EXCEPT !.fv[loc.id].m =
               [x \in DOMAIN v.fv[loc.id].m \cup {loc.key} |->
                   IF x = loc.key THEN f ELSE v.fv[loc.id].m[x]]]

\* f.SetMapIndex(k, reflect.Value{}): the entry for k is deleted
DeleteMapIndex(v, id, k) ==
    [v EXCEPT !.fv[id].m = [x \in DOMAIN v.fv[id].m \ {k} |-> v.fv[id].m[x]]]

\* variant: single quotes and backticks are left on the key
MapKeyCutsetMut == {"\"", "\\"}

MapKeyCutset == {"\"", "\\", Backtick, "'"}

\* the return after setValue: its error, or its value with the store its
\* callback made at loc (none when the callback did not run)
stored(v, loc, sv) ==
    IF sv.err # NoErr THEN Ret(Nil, sv.err, v)
    ELSE Ret(sv.val, NoErr, IF sv.set THEN Put(v, loc, sv.f) ELSE v)

\* process, lines 394-434: the entry for the key k of the map f
processEntry(v, fSettable, mode, value, last, fld, f, k, loc) ==
    LET Missing(tmp) == Cont(tmp, Put(v, loc, tmp), tmp, FALSE, loc)
    IN
    IF mode = "set" /\ last
    THEN IF IsNil(value)
         THEN Ret(Nil, NoErr, DeleteMapIndex(v, fld.id, k))
         ELSE stored(v, loc, setValue(f.t, fSettable, Elem(f.t), value))
    ELSE IF k \in DOMAIN f.m
         THEN Cont(f.m[k], v, f.m[k], FALSE, loc)
         ELSE IF isExists(mode) THEN Ret(Nil, NoErr, v)
              ELSE Missing(NewWithDefaultsOf(Elem(f.t)))

\* process, lines 374-434: pk is the parsed key, or the error of parsing it
processMap(v, fSettable, mode, value, last, fld, f, pk) ==
    IF pk.err # NoErr THEN Ret(Nil, pk.err, v)
    ELSE processEntry(v, fSettable, mode, value, last, fld, f, KeyOf(pk.val),
                      [in |-> "entry", id |-> fld.id, key |-> KeyOf(pk.val)])

\* process, lines 374-392: the key of the map type mt is parsed from the
\* trimmed text unless it is text itself
parseKey(key, mt) ==
    IF Kind(TypeInfo(mt).key) # "string"
    THEN Parse(key, TypeInfo(mt).key, <<>>)
    ELSE Ok(StrV(key))

\* process, lines 346-435: the bracket payload is a map key
processKey(v, canSet, mode, value, last, fld, f0, key0) ==
    LET \* a nil map is replaced by a new one, stored into the field
        f == IF IsNil(f0) THEN NewWithDefaultsOf(fld.type) ELSE f0
    IN
    IF Kind(f0.t) # "map" THEN Ret(Nil, "field is not a map", v)
    ELSE IF IsNil(f0) /\ isExists(mode) THEN Ret(Nil, NoErr, v)
    ELSE IF IsNil(f0) /\ ~canSet THEN Ret(Nil, "field isn't addressable", v)
    \* a map made here is addressable; otherwise the field decides
    ELSE processMap(IF IsNil(f0) THEN SetField(v, fld.id, f) ELSE v,
                    IsNil(f0) \/ canSet, mode, value, last, fld, f,
                    parseKey(Trim(key0, MapKeyCutset), f0.t))

\* variant: an out-of-range index on a fixed array is reported as absent
\* under exists instead of failing
processArrayMut(v, canSet, mode, value, last, fld, f, index) ==
    IF Len(f.e) > index
    THEN IF mode = "set" /\ last
         THEN stored(v, [in |-> "elem", id |-> fld.id, index |-> index],
                     setValue(Elem(f.t), canSet, Elem(f.t), value))
         ELSE Cont(f.e[index + 1], v, f, canSet, [in |-> "field", id |-> fld.id])
    ELSE IF mode = "exists" THEN Ret(Nil, NoErr, v)
         ELSE Ret(Nil, "array isn't expandable", v)

\* process, lines 276-295: index >= 0 on a fixed array
processArray(v, canSet, mode, value, last, fld, f, index) ==
    IF Len(f.e) > index
    THEN IF mode = "set" /\ last
         THEN stored(v, [in |-> "elem", id |-> fld.id, index |-> index],
                     setValue(Elem(f.t), canSet, Elem(f.t), value))
         \* f stays the array itself
         ELSE Cont(f.e[index + 1], v, f, canSet, [in |-> "field", id |-> fld.id])
    ELSE Ret(Nil, "array isn't expandable", v)

\* variant: the loop appends a default on every iteration, without the
\* test i >= l
growMut(elems, index, e) ==
    [i \in 1..(Len(elems) + index + 1) |->
        IF i <= Len(elems) THEN elems[i] ELSE NewWithDefaultsOf(e)]

\* process, lines 300-312: the elements after the loop has appended a
\* default for every position from the old length up to index
grow(elems, index, e) ==
    [i \in 1..(IF index + 1 > Len(elems) THEN index + 1 ELSE Len(elems)) |->
        IF i <= Len(elems) THEN elems[i] ELSE NewWithDefaultsOf(e)]

\* variant: the callback writes the last element instead of element index
SetIndexMut(elems, index, f) == [elems EXCEPT ![Len(elems)] = f]

\* i.Set(f) for i = f.Index(index), the callback handed to setValue
SetIndex(elems, index, f) == [elems EXCEPT ![index + 1] = f]

\* process, lines 333-343: the slice is stored back into its field and the
\* walk continues with the element; nf is the slice after the loop
processWriteBack(v, canSet, fld, index, l, nf) ==
    IF canSet
    THEN Cont(nf.e[index + 1], SetField(v, fld.id, nf), nf.e[index + 1], TRUE,
              [in |-> "elem", id |-> fld.id, index |-> index])
    \* the element of an existing backing array was written in place;
    \* a grown copy is lost
    ELSE Ret(Nil, "field isn't addressable",
             IF index < l THEN SetField(v, fld.id, nf) ELSE v)

\* process, lines 296-345: index >= 0 on a growable slice
processSlice(v, canSet, mode, value, last, fld, f, index) ==
    LET After_(elems) ==
            processWriteBack(v, canSet, fld, index, Len(f.e),
                IF Len(elems) > Len(f.e) THEN [f EXCEPT !.nil = FALSE, !.e = elems]
                                         ELSE [f EXCEPT !.e = elems])
        Loop(grown, sv) ==
            IF mode = "set" /\ last /\ sv.err # NoErr THEN Ret(Nil, sv.err, v)
            ELSE After_(IF mode = "set" /\ last /\ sv.set
                        THEN SetIndex(grown, index, sv.f) ELSE grown)
    IN
    IF index >= Len(f.e) /\ isExists(mode) THEN Ret(Nil, NoErr, v)
    ELSE Loop(grow(f.e, index, Elem(fld.type)),
              setValue(Elem(f.t), TRUE, Elem(f.t), value))

\* process, lines 187-199: the value is wrapped in or unwrapped from a
\* pointer to match the field
fitPointer(value, t) ==
    IF value = Nil THEN Nil
    ELSE IF Kind(t) = "interface" THEN value
    ELSE IF Kind(t) = "ptr"
         THEN (IF ~IsPointer(value) THEN CopyToHeap(value) ELSE value)
         ELSE (IF IsPointer(value) THEN FromPointer(value) ELSE value)

\* process, lines 177-238: the last segment of a Set names a plain field
processAssign(v, canSet, value, fld) ==
    LET Parsed(pr) ==
            IF pr.err # NoErr THEN Ret(Nil, pr.err, v)
            ELSE Ret(pr.val, NoErr, SetField(v, fld.id, pr.val))
        Converted(c) == Ret(c, NoErr, SetField(v, fld.id, c))
        Fitted(value1, t) ==
            IF Kind(t) = "interface"
            THEN (IF Implements(value1.t, t) THEN Converted(value1)
                  ELSE Ret(Nil, "doesn't implement", v))
            ELSE IF value1 # Nil /\ Kind(value1.t) = "string"
            THEN Parsed(Parse(value1.s, t, <<>>))
            ELSE IF IsPointer(value1) /\ ~value1.nil /\ Kind(value1.p.t) = "string"
            THEN Parsed(Parse(value1.p.s, t, <<>>))
            ELSE IF ConvertibleTo(value1.t, t) THEN Converted(Convert(value1, t))
            ELSE IF t # value1.t THEN Ret(Nil, "invalid data type", v)
            ELSE Converted(value1)
    IN
    IF ~canSet THEN Ret(Nil, "field isn't addressable", v)
    ELSE IF value = Nil THEN Converted(Zero(fld.type))
    ELSE Fitted(fitPointer(value, fld.type), fld.type)

\* variant: empty brackets name the first element
processBracketMut(v, canSet, mode, value, last, fld, f, mt) ==
    LET isSeq == Kind(f.t) \in {"slice", "array"}
        index == IF mt.ok /\ isSeq
                 THEN (IF Len(mt.key) = 0 THEN 0
                       ELSE IF Atoi(mt.key).ok THEN Atoi(mt.key).n ELSE 0 - 1)
                 ELSE 0 - 1
    IN
    IF index >= 0 /\ Kind(f.t) = "array"
    THEN processArray(v, canSet, mode, value, last, fld, f, index)
    ELSE IF index >= 0
    THEN processSlice(v, canSet, mode, value, last, fld, f, index)
    ELSE IF mt.ok /\ ~(isSeq /\ (Len(mt.key) = 0 \/ Atoi(mt.key).ok))
    THEN processKey(v, canSet, mode, value, last, fld, f, mt.key)
    ELSE Cont(f, v, f, canSet, [in |-> "field", id |-> fld.id])

\* process, lines 262-435: the bracket payload, if any, applied to the field
\* value f
processBracket(v, canSet, mode, value, last, fld, f, mt) ==
    LET isSeq == Kind(f.t) \in {"slice", "array"}
        index == IF mt.ok /\ isSeq
                 THEN (IF Len(mt.key) = 0 THEN Len(f.e)
                       ELSE IF Atoi(mt.key).ok THEN Atoi(mt.key).n ELSE 0 - 1)
                 ELSE 0 - 1
    IN
    IF index >= 0 /\ Kind(f.t) = "array"
    THEN processArray(v, canSet, mode, value, last, fld, f, index)
    ELSE IF index >= 0
    THEN processSlice(v, canSet, mode, value, last, fld, f, index)
    ELSE IF mt.ok /\ ~(isSeq /\ (Len(mt.key) = 0 \/ Atoi(mt.key).ok))
    THEN processKey(v, canSet, mode, value, last, fld, f, mt.key)
    ELSE Cont(f, v, f, canSet, [in |-> "field", id |-> fld.id])

\* process, lines 160-260: the field fld of the record v has matched the name
processField(v, canSet, mode, value, last, fld, mt) ==
    LET f0 == v.fv[fld.id]
        \* lines 239-257: a nil field on the way is constructed
        fresh == IsNil(f0) /\ (~last \/ mode = "create")
        f == IF fresh THEN NewWithDefaultsOf(fld.type) ELSE f0
    IN
    IF ~fld.exported THEN Ret(Nil, "field " \o Text(mt.fn) \o " is not exported", v)
    ELSE IF mode = "set" /\ last /\ ~mt.ok
    THEN processAssign(v, canSet, value, fld)
    ELSE IF fresh /\ isExists(mode) THEN Ret(Nil, NoErr, v)
    ELSE IF fresh /\ ~canSet THEN Ret(Nil, "field isn't addressable", v)
    ELSE processBracket(IF fresh THEN SetField(v, fld.id, f) ELSE v,
                        canSet, mode, value, last, fld, f, mt)

\* variant: the field names are compared as they are declared
processMatchMut(v, canSet, mode, value, last, mt) ==
    LET fs == Fields(v.t)
        hit == {i \in 1..Len(fs) : fs[i].name = mt.fn}
    IN
    IF hit = {} THEN Ret(Nil, "field not found: " \o Text(mt.fn), v)
    ELSE processField(v, canSet, mode, value, last,
                      fs[CHOOSE i \in hit : \A j \in hit : i <= j], mt)

\* process, lines 145-435: the first field of v whose lowered name is the
\* name part mt.fn of the segment
processMatch(v, canSet, mode, value, last, mt) ==
    LET fs == Fields(v.t)
        hit == {i \in 1..Len(fs) : ToLower(fs[i].name) = mt.fn}
    IN
    IF hit = {} THEN Ret(Nil, "field not found: " \o Text(mt.fn), v)
    ELSE processField(v, canSet, mode, value, last,
                      fs[CHOOSE i \in hit : \A j \in hit : i <= j], mt)

\* process, lines 133-435: one segment resolved against the record v
processSegment(v, canSet, mode, value, seg, last) ==
    processMatch(v, canSet, mode, value, last,
                 arrayMatches(Trim(ToLower(seg), SpaceRunes)))

RECURSIVE process(_, _, _, _, _)
process(v, canSet, mode, value, path) ==
    LET Deref(r) == [val |-> r.val, err |-> r.err, v |-> [v EXCEPT !.p = r.v]]
        Child(r, c) == [val |-> c.val, err |-> c.err, v |-> Put(r.v, r.loc, c.v)]
        Segment(r) ==
            IF r.done \/ Len(path) = 1 THEN [val |-> r.val, err |-> r.err, v |-> r.v]
            ELSE Child(r, process(r.f, r.fCanSet, mode, value, Tail(path)))
    IN
    IF Len(path) = 0 THEN [val |-> Nil, err |-> NoErr, v |-> v]
    ELSE IF IsPointer(v) /\ ~v.nil THEN Deref(process(v.p, TRUE, mode, value, path))
    ELSE IF ~IsStruct(v) THEN [val |-> Nil, err |-> "field isn't a struct", v |-> v]
    ELSE Segment(processSegment(v, canSet, mode, value, path[1], Len(path) = 1))

\* what an entry point hands back: the result and error of process, and the
\* root as the walk has left it
Returned(r) == [val |-> r.val, err |-> r.err, obj |-> r.v]

\* variant: Exists reports true whenever the walk returns no error
ExistsMut(obj, path) ==
    LET Found(r) ==
            IF r.err # NoErr THEN [val |-> FALSE, err |-> r.err, obj |-> r.v]
            ELSE [val |-> TRUE, err |-> NoErr, obj |-> r.v]
    IN  IF ~IsStruct(obj)
        THEN [val |-> FALSE, err |-> "exists supports only structs", obj |-> obj]
        ELSE Found(process(obj, FALSE, "exists", Nil, split(path)))

\* the root as reflect.ValueOf(obj) leaves it after the call
Exists(obj, path) ==
    LET Found(r) ==
            IF r.err # NoErr THEN [val |-> FALSE, err |-> r.err, obj |-> r.v]
            ELSE [val |-> ~IsNil(r.val), err |-> NoErr, obj |-> r.v]
    IN  IF ~IsStruct(obj)
        THEN [val |-> FALSE, err |-> "exists supports only structs", obj |-> obj]
        ELSE Found(process(obj, FALSE, "exists", Nil, split(path)))

Get(obj, path) ==
    IF ~IsStruct(obj)
    THEN [val |-> Nil, err |-> "get supports only structs", obj |-> obj]
    ELSE Returned(process(obj, FALSE, "get", Nil, split(path)))

\* variant: Create without the test for a reference root
CreateMut(obj, path) ==
    IF ~IsStruct(obj)
    THEN [val |-> Nil, err |-> "create supports only structs", obj |-> obj]
    ELSE Returned(process(obj, FALSE, "create", Nil, split(path)))

Create(obj, path) ==
    IF ~IsStruct(obj)
    THEN [val |-> Nil, err |-> "create supports only structs", obj |-> obj]
    ELSE IF ~IsPointer(obj)
    THEN [val |-> Nil, err |-> "create supports only struct pointers", obj |-> obj]
    ELSE Returned(process(obj, FALSE, "create", Nil, split(path)))

Set(obj, path, value) ==
    IF ~IsStruct(obj)
    THEN [val |-> Nil, err |-> "set supports only structs", obj |-> obj]
    ELSE IF ~IsPointer(obj)
    THEN [val |-> Nil, err |-> "set supports only struct pointers", obj |-> obj]
    ELSE Returned(process(obj, FALSE, "set", value, split(path)))

(***************************************************************************)
(* The caller: one graph, and calls of the four entry points on it         *)
(***************************************************************************)

VARIABLES
    obj,    \* the caller's User record
    last,   \* the last call: operation, root form, path, value, results, graph before
    calls   \* number of calls made

vars == <<obj, last, calls>>

\* bounds of the model
MaxCalls == 1

MaxLen == 3

\* field names and bracket payloads as the caller writes them
PName == <<"N","a","m","e">>

PAge == <<"a","g","e">>

PAddress == <<"A","d","d","r","e","s","s">>

PZip == <<"z","i","p">>

PTags == <<"T","a","g","s">>

PCodes == <<"c","o","d","e","s">>

PMeta == <<"M","e","t","a">>

Dot == <<".">>

Br(payload) == <<"[">> \o payload \o <<"]">>

Paths ==
    { PName,
      PAge,
      PAddress,
      PAddress \o Dot \o PZip,
      PTags,
      PTags \o Br(<<"0">>),
      PTags \o Br(<<"2">>),
      PTags \o Br(<<>>),
      PTags \o Br(<<"-","1">>),
      PTags \o Br(<<"a">>),
      PCodes \o Br(<<"1">>),
      PCodes \o Br(<<"2">>),
      PMeta,
      PMeta \o Br(<<"\"","a","\"">>),
      PMeta \o Br(<<"K">>),
      <<"s","e","c","r","e","t">>,
      <<"n","o","p","e">>,
      PName \o Dot \o <<"x">>,
      <<>> }

\* caller values handed to Set
Values ==
    { Nil, StrV(<<"x">>), StrV(<<"7">>), IntV(5), CopyToHeap(IntV(5)) }

\* the forms in which the caller passes the root
Roots == {"ptr", "val", "scalar"}

\* obj as the argument of a call
RootOf(root, o) ==
    CASE root = "ptr" -> CopyToHeap(o)
      [] root = "val" -> o
      [] OTHER        -> IntV(0)

\* the caller's record after a call that left the argument as arg
After(root, arg, o) ==
    CASE root = "ptr" -> arg.p
      [] root = "val" -> arg
      [] OTHER        -> o

ZeroUser == Zero("User")

SampleUser ==
    [t |-> "User", fv |->
        [Name    |-> StrV(<<"x">>),
         Age     |-> [t |-> "*int", nil |-> TRUE],
         Address |-> [t |-> "*Address", nil |-> TRUE],
         Tags    |-> [t |-> "[]string", nil |-> FALSE, e |-> <<StrV(<<"a">>), StrV(<<"b">>)>>],
         Codes   |-> [t |-> "[2]int", e |-> <<IntV(1), IntV(2)>>],
         Meta    |-> [t |-> "map[string]int", nil |-> FALSE,
                      m |-> (<<"a">> :> IntV(1)) @@ (<<"K">> :> IntV(2))],
         secret  |-> IntV(0),
         Props   |-> [t |-> "map[string]any", nil |-> TRUE, m |-> <<>>],
         Label   |-> Nil,
         Labels  |-> [t |-> "[]Stringer", nil |-> FALSE, e |-> <<LevelV(1)>>],
         Index   |-> [t |-> "map[int]string", nil |-> FALSE,
                      m |-> (0 :> StrV(<<"z">>))],
         note    |-> IntV(0),
         Note    |-> StrV(<<"n">>)]]

\* a record with every reference, sequence and map in place
FilledUser ==
    [t |-> "User", fv |->
        [Name    |-> StrV(<<"y">>),
         Age     |-> CopyToHeap(IntV(7)),
         Address |-> CopyToHeap([t |-> "Address", fv |->
                        [City |-> StrV(<<"c">>), Zip |-> IntV(5)]]),
         Tags    |-> [t |-> "[]string", nil |-> FALSE,
                      e |-> <<StrV(<<"a">>), StrV(<<"b">>), StrV(<<"c">>)>>],
         Codes   |-> [t |-> "[2]int", e |-> <<IntV(0), IntV(9)>>],
         Meta    |-> [t |-> "map[string]int", nil |-> FALSE, m |-> <<>>],
         secret  |-> IntV(3),
         Props   |-> [t |-> "map[string]any", nil |-> FALSE,
                      m |-> (<<"k">> :> StrV(<<"o">>))],
         Label   |-> LevelV(2),
         Labels  |-> [t |-> "[]Stringer", nil |-> FALSE,
                      e |-> <<LevelV(1), CopyToHeap(LevelV(2))>>],
         Index   |-> [t |-> "map[int]string", nil |-> FALSE, m |-> <<>>],
         note    |-> IntV(4),
         Note    |-> StrV(<<"m">>)]]

NoCall ==
    [op |-> "none", root |-> "ptr", path |-> <<>>, value |-> Nil,
     val |-> Nil, err |-> NoErr, pre |-> ZeroUser]

Init ==
    /\ obj \in {ZeroUser, SampleUser, FilledUser}
    /\ last = NoCall
    /\ calls = 0

\* the growable sequence stays within the bound of the model
Bounded(o) == Len(o.fv.Tags.e) <= MaxLen

Call(op, root, path, value, r) ==
    /\ calls < MaxCalls
    /\ Bounded(After(root, r.obj, obj))
    /\ obj' = After(root, r.obj, obj)
    /\ last' = [op |-> op, root |-> root, path |-> path, value |-> value,
                val |-> r.val, err |-> r.err, pre |-> obj]
    /\ calls' = calls + 1

DoExists ==
    \E root \in Roots, path \in Paths :
        Call("exists", root, path, Nil, Exists(RootOf(root, obj), path))

DoGet ==
    \E root \in Roots, path \in Paths :
        Call("get", root, path, Nil, Get(RootOf(root, obj), path))

DoCreate ==
    \E root \in Roots, path \in Paths :
        Call("create", root, path, Nil, Create(RootOf(root, obj), path))

DoSet ==
    \E root \in Roots, path \in Paths, value \in Values :
        Call("set", root, path, value, Set(RootOf(root, obj), path, value))

Next == DoExists \/ DoGet \/ DoCreate \/ DoSet

Spec == Init /\ [][Next]_vars

(***************************************************************************)
(* Vocabulary of the properties                                            *)
(***************************************************************************)

\* the root passed by reference
Ref(o) == CopyToHeap(o)

\* a segment of the path is the append form f[]
HasAppend(path) ==
    \E i \in 1..(Len(path) - 1) : path[i] = "[" /\ path[i + 1] = "]"

\* a bracket payload of the path is a negative number
HasNegIndex(path) ==
    \E i \in 1..(Len(path) - 1) : path[i] = "[" /\ path[i + 1] = "-"

\* the declared type of the slot a path denotes, from the declarations alone
RECURSIVE SlotType(_, _)
SlotType(t, parts) ==
    IF parts = <<>> THEN t
    ELSE LET rt == IF Kind(t) = "ptr" THEN Elem(t) ELSE t
             mt == arrayMatches(Trim(ToLower(Head(parts)), SpaceRunes))
             fs == Fields(rt)
             hit == {i \in 1..Len(fs) : ToLower(fs[i].name) = mt.fn /\ fs[i].exported}
         IN  IF hit = {} THEN "invalid"
             ELSE LET ft == fs[CHOOSE i \in hit : TRUE].type
                  IN  IF ~mt.ok THEN SlotType(ft, Tail(parts))
                      ELSE IF Kind(ft) \in {"slice", "array", "map"}
                           THEN SlotType(Elem(ft), Tail(parts))
                           ELSE "invalid"

SlotOf(path) == SlotType("User", split(path))

\* the caller's value wrapped in or unwrapped from a reference to match the slot
Matched(value, slot) ==
    IF Kind(slot) = "ptr" /\ ~IsPointer(value) THEN CopyToHeap(value)
    ELSE IF Kind(slot) # "ptr" /\ IsPointer(value) THEN FromPointer(value)
    ELSE value

\* a non-null value of the slot's own type, up to a reference
Compatible(value, slot) ==
    /\ value # Nil
    /\ Kind(slot) \notin {"invalid", "array"}
    /\ Matched(value, slot).t = slot

\* the map key as the caller wrote it between the brackets, quotes removed
WrittenKey(path) ==
    LET open  == CHOOSE i \in 1..Len(path) : path[i] = "["
        close == CHOOSE i \in 1..Len(path) : path[i] = "]"
    IN  Trim(SubSeq(path, open + 1, close - 1), QuoteRunes)

\* the paths of one segment that address an entry of Meta
MetaKeyPaths == { PMeta \o Br(<<"\"","a","\"">>), PMeta \o Br(<<"K">>) }

\* the paths of one segment that address an element of Tags by its index
TagIndex(path) ==
    CASE path = PTags \o Br(<<"0">>) -> 0
      [] path = PTags \o Br(<<"2">>) -> 2
      [] OTHER -> 0 - 1

\* a path that indexes the fixed array Codes (length 2) out of range
ArrayOverflowPaths == { PCodes \o Br(<<"2">>) }

ByRefSet == last.op = "set" /\ last.root = "ptr"

(***************************************************************************)
(* C1                                                                      *)
(***************************************************************************)

C1_Case ==
    /\ ByRefSet
    /\ last.err = NoErr
    /\ Compatible(last.value, SlotOf(last.path))

C1_RoundTrip ==
    LET g == Get(Ref(obj), last.path)
    IN  g.err = NoErr /\ g.val = Matched(last.value, SlotOf(last.path))

\* C1 as stated: after a successful Set(R,P,V) with a non-null compatible V,
\* Get(R,P) succeeds and returns V (wrapped or unwrapped to match the slot),
\* whether P ends in a plain field, a sequence element or a map entry.
C1_Original == C1_Case => C1_RoundTrip

\* C1 amended: the round trip holds when no segment of P is the append form
\* f[] and no bracket payload is a negative number.
C1_Amended ==
    (C1_Case /\ ~HasAppend(last.path) /\ ~HasNegIndex(last.path)) => C1_RoundTrip

\* a Set that grew Tags to reach index 2 and stored the caller's text there
C1_Witness ==
    /\ C1_Case
    /\ last.path = PTags \o Br(<<"2">>)
    /\ Len(last.pre.fv.Tags.e) < 3
    /\ last.value = StrV(<<"x">>)

(***************************************************************************)
(* C2                                                                      *)
(***************************************************************************)

C2_Case ==
    /\ last.op = "create" /\ last.root = "ptr"
    /\ last.err = NoErr
    /\ ~Exists(Ref(last.pre), last.path).val

C2_Again ==
    LET c == Create(Ref(obj), last.path)
    IN  c.err = NoErr /\ c.obj = Ref(obj)

\* C2 as stated: a second Create with the same path succeeds and leaves the
\* graph exactly as the first Create left it, for any path on which Create
\* succeeded from a graph where the path was absent.
C2_Original == C2_Case => C2_Again

\* C2 amended: Create is idempotent on every path none of whose segments is
\* the append form f[].
C2_Amended == (C2_Case /\ ~HasAppend(last.path)) => C2_Again

\* a Create that constructed the Address reference on the way to Zip
C2_Witness ==
    /\ C2_Case
    /\ last.path = PAddress \o Dot \o PZip
    /\ last.pre.fv.Address.nil
    /\ ~obj.fv.Address.nil

(***************************************************************************)
(* C3                                                                      *)
(***************************************************************************)

\* C3: Exists never changes the target graph, whether it returns true, false
\* or an error.
C3_ExistsFrame == last.op = "exists" => obj = last.pre

\* an Exists that met an absent part of the graph and reported false
C3_Witness ==
    /\ last.op = "exists"
    /\ last.root = "ptr"
    /\ last.err = NoErr
    /\ last.val = FALSE
    /\ last.path \in { PAddress \o Dot \o PZip, PTags \o Br(<<"2">>),
                       PMeta \o Br(<<"K">>) }

(***************************************************************************)
(* C4                                                                      *)
(***************************************************************************)

C4_Case == last.op = "create" /\ last.root = "ptr" /\ last.err = NoErr

C4_ExistsAfter ==
    LET x == Exists(Ref(obj), last.path)
    IN  x.err = NoErr /\ x.val = TRUE

C5_Case ==
    /\ ByRefSet
    /\ TagIndex(last.path) >= 0
    /\ last.value # Nil /\ last.value.t = "string"

\* C5: Set(R, "f[i]", x) on a growable sequence of length n: with i >= n it
\* succeeds and leaves exactly i+1 elements, the old ones unchanged, the
\* elements n..i-1 the default of the element type and element i equal to x;
\* with i < n the length stays n and only element i changes.
C5_Growth ==
    C5_Case =>
        LET i   == TagIndex(last.path)
            old == last.pre.fv.Tags.e
            new == obj.fv.Tags.e
            n   == Len(old)
        IN  /\ last.err = NoErr
            /\ Len(new) = (IF i >= n THEN i + 1 ELSE n)
            /\ \A j \in 1..n : j # i + 1 => new[j] = old[j]
            /\ \A j \in (n + 1)..i : new[j] = Zero("string")
            /\ new[i + 1] = last.value

\* a Set two places past the end of the sequence
C5_Witness ==
    /\ C5_Case
    /\ TagIndex(last.path) = 2
    /\ Len(last.pre.fv.Tags.e) = 0
    /\ Len(obj.fv.Tags.e) = 3

(***************************************************************************)
(* C6                                                                      *)
(***************************************************************************)

C6_Case ==
    /\ last.op \in {"get", "set", "exists", "create"}
    /\ last.root = "ptr"
    /\ last.path \in ArrayOverflowPaths

\* C6: an index >= n on a fixed array of length n fails with "array isn't
\* expandable" under Get, Set, Exists and Create alike, and the array is
\* unchanged.
C6_FixedArray ==
    /\ C6_Case => (last.err = "array isn't expandable" /\ obj = last.pre)
    /\ \A p \in ArrayOverflowPaths :
          /\ Get(Ref(obj), p).err = "array isn't expandable"
          /\ Exists(Ref(obj), p).err = "array isn't expandable"
          /\ Create(Ref(obj), p).err = "array isn't expandable"
          /\ \A x \in Values : Set(Ref(obj), p, x).err = "array isn't expandable"

\* an Exists on the element one past the end of the array
C6_Witness ==
    /\ C6_Case
    /\ last.op = "exists"
    /\ last.err = "array isn't expandable"

(***************************************************************************)
(* C7                                                                      *)
(***************************************************************************)

\* C7: Set(R, "m[k]", v) on a null map field with a non-null compatible v
\* constructs the map, stores it in the field, and the map then holds exactly
\* one entry, k -> v.
C7_MapAutoCreate ==
    (/\ ByRefSet
     /\ last.path \in MetaKeyPaths
     /\ last.pre.fv.Meta.nil
     /\ last.value = IntV(5))
    => /\ last.err = NoErr
       /\ ~obj.fv.Meta.nil
       /\ obj.fv.Meta.m = (WrittenKey(last.path) :> IntV(5))

(***************************************************************************)
(* C8                                                                      *)
(***************************************************************************)

\* C8: Set(R, "m[k]", null) deletes the entry for k: it returns null with no
\* error, every other entry is unchanged, and Exists(R, "m[k]") then returns
\* false.
C8_MapDelete ==
    (/\ ByRefSet
     /\ last.path \in MetaKeyPaths
     /\ last.value = Nil)
    => LET k   == WrittenKey(last.path)
           old == last.pre.fv.Meta.m
           new == obj.fv.Meta.m
           x   == Exists(Ref(obj), last.path)
       IN  /\ last.val = Nil /\ last.err = NoErr
           /\ k \notin DOMAIN new
           /\ \A j \in DOMAIN old \ {k} : j \in DOMAIN new /\ new[j] = old[j]
           /\ x.err = NoErr /\ x.val = FALSE

(***************************************************************************)
(* C9                                                                      *)
(***************************************************************************)

RootErr(op, what) ==
    CASE op = "get"    -> IF what = "struct" THEN "get supports only structs" ELSE "none"
      [] op = "exists" -> IF what = "struct" THEN "exists supports only structs" ELSE "none"
      [] op = "set"    -> IF what = "struct" THEN "set supports only structs"
                          ELSE "set supports only struct pointers"
      [] op = "create" -> IF what = "struct" THEN "create supports only structs"
                          ELSE "create supports only struct pointers"
      [] OTHER         -> "none"

\* C9: a root that is not a record makes all four operations fail with
\* "<op> supports only structs"; a record passed by value makes Set and
\* Create fail with "<op> supports only struct pointers" while Get and Exists
\* accept it; in each of these failures nothing in the caller's data changes.
C9_RootChecks ==
    /\ (last.op # "none" /\ last.root = "scalar")
          => (last.err = RootErr(last.op, "struct") /\ obj = last.pre)
    /\ (last.op \in {"set", "create"} /\ last.root = "val")
          => (last.err = RootErr(last.op, "pointer") /\ obj = last.pre)
    /\ (last.op \in {"get", "exists"} /\ last.root = "val")
          => last.err # RootErr(last.op, "struct")

\* a Set on a record passed by value, for a path and value a reference root
\* would have accepted
C9_Witness ==
    /\ last.op = "set"
    /\ last.root = "val"
    /\ last.path = PName
    /\ last.value = StrV(<<"x">>)
    /\ last.err = "set supports only struct pointers"

(***************************************************************************)
(* C10                                                                     *)
(***************************************************************************)

\* C10: on a record passed by value, Get of an in-range element of a growable
\* sequence field returns that element and Exists returns true, both without
\* error.
C10_ByValueIndex ==
    (/\ last.op \in {"get", "exists"}
     /\ last.root = "val"
     /\ TagIndex(last.path) >= 0
     /\ TagIndex(last.path) < Len(last.pre.fv.Tags.e))
    => /\ last.err = NoErr
       /\ last.op = "get" => last.val = last.pre.fv.Tags.e[TagIndex(last.path) + 1]
       /\ last.op = "exists" => last.val = TRUE

(***************************************************************************)
(* The caller again, on a record with capability slots and keyed maps,     *)
(* writing paths in the spellings the path syntax allows                   *)
(***************************************************************************)

PProps == <<"P","r","o","p","s">>

PLabel == <<"L","a","b","e","l">>

PLabels == <<"L","a","b","e","l","s">>

PIndex == <<"I","n","d","e","x">>

PNote == <<"N","o","t","e">>

\* the quotings of a map key: double quotes, single quotes, backticks, none
Quotings == {"\"", "'", Backtick, ""}

Quoted(q, key) == IF q = "" THEN key ELSE <<q>> \o key \o <<q>>

\* paths that end in a capability slot
SlotPaths ==
    { PProps \o Br(Quoted("\"", <<"k">>)),
      PLabel,
      PLabels \o Br(<<"0">>) }

\* the slot paths on which no mode has to construct a value of an interface
\* type: the field itself and an element that is there
HeldPaths == { PLabel, PLabels \o Br(<<"0">>) }

\* the spellings of one map entry: the key in every quoting
Spellings(field, key) == {field \o Br(Quoted(q, key)) : q \in Quotings}

\* the map entries the caller names: a text key, a key that is parsed into
\* an integer, and a text key with a separator in it
KeyFamilies ==
    { Spellings(PMeta, <<"a">>),
      Spellings(PIndex, <<"0">>),
      Spellings(PMeta, <<"a", ".", "b">>) }

\* paths that name a map entry, in every quoting
KeyPaths == UNION KeyFamilies

\* paths with leading, trailing and repeated separators, each with the path
\* that is left when the extra separators are removed
DotForms ==
    { <<Dot \o PName, PName>>,
      <<PName \o Dot, PName>>,
      <<PAddress \o Dot \o Dot \o PZip, PAddress \o Dot \o PZip>>,
      <<Dot \o Dot \o PAddress \o Dot \o PZip \o Dot, PAddress \o Dot \o PZip>>,
      <<Dot \o PMeta \o Br(<<"a">>) \o Dot, PMeta \o Br(<<"a">>)>>,
      <<Dot, <<>>>> }

DottedPaths == {form[1] : form \in DotForms}

\* paths with a separator inside a group: in a quoted name, and in a bracket
\* payload after an inner bracket pair
GroupPaths ==
    { <<"\"">> \o PAddress \o Dot \o PZip \o <<"\"">>,
      PMeta \o Br(<<"a">> \o Br(<<"b">>) \o Dot \o <<"c">>) }

\* the public field Note, declared after the non-public field note
ShadowedPaths == { PNote }

\* paths on which Get and Create construct nothing of an interface type
PlainPaths == KeyPaths \cup DottedPaths \cup GroupPaths \cup ShadowedPaths

SyntaxPaths == SlotPaths \cup PlainPaths

\* caller values handed to Set
SlotValues ==
    { Nil, StrV(<<"x">>), IntV(5), LevelV(3), CopyToHeap(LevelV(3)),
      [t |-> "map[string]int", nil |-> FALSE, m |-> <<>>] }

SyntaxInit ==
    /\ obj \in {SampleUser, FilledUser}
    /\ last = NoCall
    /\ calls = 0

ExistsAt ==
    \E path \in SyntaxPaths :
        Call("exists", "ptr", path, Nil, Exists(Ref(obj), path))

GetAt ==
    \E path \in HeldPaths \cup PlainPaths :
        Call("get", "ptr", path, Nil, Get(Ref(obj), path))

CreateAt ==
    \E path \in PlainPaths :
        Call("create", "ptr", path, Nil, Create(Ref(obj), path))

SetAt ==
    \E path \in SyntaxPaths, value \in SlotValues :
        Call("set", "ptr", path, value, Set(Ref(obj), path, value))

SyntaxNext == ExistsAt \/ GetAt \/ CreateAt \/ SetAt

SyntaxSpec == SyntaxInit /\ [][SyntaxNext]_vars

(***************************************************************************)
(* C11                                                                     *)
(***************************************************************************)

C11_Case ==
    /\ last.op = "set"
    /\ last.path = PProps \o Br(Quoted("\"", <<"k">>))
    /\ last.value # Nil

\* C11: Set of a non-null value as the last segment on an entry of a map whose
\* declared value type is any succeeds: the map exists afterwards, the value is
\* stored as it is under the key, it is returned, and Get of the same path
\* returns it.
C11_AnyValuedMap ==
    C11_Case =>
        /\ last.err = NoErr
        /\ last.val = last.value
        /\ ~obj.fv.Props.nil
        /\ <<"k">> \in DOMAIN obj.fv.Props.m
        /\ obj.fv.Props.m[<<"k">>] = last.value
        /\ Get(Ref(obj), last.path).val = last.value

(***************************************************************************)
(* C12                                                                     *)
(***************************************************************************)

\* what the capability slot at the end of a held path holds
SlotValue(o, path) ==
    IF path = PLabel THEN o.fv.Label ELSE o.fv.Labels.e[1]

\* the types of the caller values that have the method String()
HasString == {"Level", "*Level"}

C12_Case ==
    /\ last.op = "set"
    /\ last.path \in HeldPaths
    /\ last.value # Nil

\* C12: Set as the last segment on a field of interface type, or on an element
\* of a sequence of interface type, fails with "doesn't implement" and leaves
\* the slot as it was when the type of the value does not implement the
\* interface; otherwise the value is stored unchanged and returned.
C12_CapabilitySlot ==
    C12_Case =>
        IF last.value.t \in HasString
        THEN /\ last.err = NoErr
             /\ last.val = last.value
             /\ SlotValue(obj, last.path) = last.value
        ELSE /\ last.err = "doesn't implement"
             /\ last.val = Nil
             /\ SlotValue(obj, last.path) = SlotValue(last.pre, last.path)

\* a value that does not implement the interface was refused for an element
\* that held a value, and a reference that implements it was stored in the field
C12_Witness ==
    \/ /\ C12_Case
       /\ last.path = PLabels \o Br(<<"0">>)
       /\ last.value = IntV(5)
       /\ last.err = "doesn't implement"
       /\ obj.fv.Labels.e[1] = LevelV(1)
    \/ /\ C12_Case
       /\ last.path = PLabel
       /\ last.value = CopyToHeap(LevelV(3))
       /\ obj.fv.Label = CopyToHeap(LevelV(3))

(***************************************************************************)
(* C13                                                                     *)
(***************************************************************************)

\* the entry point op applied to the record o passed by reference
Apply(op, o, path, value) ==
    CASE op = "exists" -> Exists(Ref(o), path)
      [] op = "get"    -> Get(Ref(o), path)
      [] op = "create" -> Create(Ref(o), path)
      [] op = "set"    -> Set(Ref(o), path, value)

\* r is what the last call returned and left behind
SameAsLast(r) ==
    /\ r.val = last.val
    /\ r.err = last.err
    /\ r.obj.p = obj

\* the other spellings of the entry that a key path names
SameKey(path) == CHOOSE family \in KeyFamilies : path \in family

C13_Case ==
    /\ last.op # "none"
    /\ last.path \in KeyPaths

\* C13: a call of Exists, Get, Set or Create whose path writes a map key in one
\* quoting (double quotes, single quotes, backticks or none) returns the same
\* result and error and leaves the same graph as the same call with the key in
\* any other quoting, for a text key and for a key parsed into an integer.
C13_Quoting ==
    C13_Case =>
        \A path \in SameKey(last.path) :
            SameAsLast(Apply(last.op, last.pre, path, last.value))

\* a Set with a single-quoted key stored the value under the integer key 0
C13_Witness ==
    /\ C13_Case
    /\ last.op = "set"
    /\ last.path = PIndex \o Br(Quoted("'", <<"0">>))
    /\ last.value = StrV(<<"x">>)
    /\ last.err = NoErr
    /\ 0 \in DOMAIN obj.fv.Index.m
    /\ obj.fv.Index.m[0] = StrV(<<"x">>)

(***************************************************************************)
(* C14                                                                     *)
(***************************************************************************)

\* the path that is left when the extra separators of a dotted path are removed
Collapsed(path) == (CHOOSE form \in DotForms : form[1] = path)[2]

\* paths with a separator inside quotes or brackets
Grouped == GroupPaths \cup Spellings(PMeta, <<"a", ".", "b">>)

\* the part of C14 about extra separators: a call with leading, trailing or
\* repeated separators in its path returns the same result and error and leaves
\* the same graph as the call with those separators removed
C14_ExtraDots ==
    (last.op # "none" /\ last.path \in DottedPaths) =>
        SameAsLast(Apply(last.op, last.pre, Collapsed(last.path), last.value))

\* C14: a call with leading, trailing or repeated separators in its path behaves
\* exactly like the call with those separators removed, and a separator inside
\* quotes or brackets is not a split point: a path whose only separators are
\* inside a group is one segment.
C14_DotCollapsing ==
    /\ C14_ExtraDots
    /\ (last.op # "none" /\ last.path \in Grouped) => Len(split(last.path)) = 1

(***************************************************************************)
(* C15                                                                     *)
(***************************************************************************)

PSecret == <<"s","e","c","r","e","t">>

PNope == <<"n","o","p","e">>

\* the last call was let through to the walk by its entry point
Walked ==
    /\ last.op # "none"
    /\ last.root # "scalar"
    /\ last.root = "val" => last.op \in {"get", "exists"}

\* the result of a call that found nothing: false for Exists, null otherwise
NoResult == IF last.op = "exists" THEN last.val = FALSE ELSE last.val = Nil

\* C15: the field name of a segment is matched against the fields of the record
\* without regard to case; when no field matches the call fails with the
\* not-found error that carries the name; when the matching field is not
\* public the call fails as well and the field is neither read nor written.
C15_FieldResolution ==
    Walked =>
        /\ last.path = PNope =>
               /\ last.err = "field not found: nope"
               /\ NoResult
               /\ obj = last.pre
        /\ last.path = PSecret =>
               /\ last.err = "field secret is not exported"
               /\ NoResult
               /\ obj = last.pre
        /\ (last.path = PAge /\ last.op = "get") =>
               /\ last.err = NoErr
               /\ last.val = last.pre.fv.Age
        /\ (last.path = PAddress \o Dot \o PZip /\ last.op = "exists"
              /\ ~last.pre.fv.Address.nil) =>
               /\ last.err = NoErr
               /\ last.val = TRUE

\* a Set on the non-public field was refused, and a Get found Age under "age"
C15_Witness ==
    \/ /\ Walked
       /\ last.op = "set"
       /\ last.path = PSecret
       /\ last.value = IntV(5)
       /\ last.err = "field secret is not exported"
       /\ obj.fv.secret = IntV(3)
    \/ /\ Walked
       /\ last.op = "get"
       /\ last.path = PAge
       /\ last.val = CopyToHeap(IntV(7))

(***************************************************************************)
(* The caller of the parser and of the splitter: obj holds the arguments   *)
(* of one call, last the call made and what it returned                    *)
(***************************************************************************)

\* bounds of the texts
MaxText == 3

MaxSplit == 5

\* all texts over an alphabet up to a length
TextsUpTo(alphabet, n) == UNION {[1..k -> alphabet] : k \in 0..n}

\* texts handed to Parse: a digit, a letter, the separators of the composite
\* literals, and a quote
ParseTexts == TextsUpTo({"1", "a", ",", "=", "\""}, MaxText)

ParseTypes ==
    {"int", "string", "*int", "[]int", "[]string", "[2]int",
     "map[string]int", "map[int]string", "map[string]string"}

\* hooks: NewParserHook(to, func): one for int, one for int that fails, one
\* for string
HookA == [To |-> "int", id |-> "A", fails |-> FALSE]

HookB == [To |-> "int", id |-> "B", fails |-> TRUE]

HookC == [To |-> "string", id |-> "C", fails |-> FALSE]

HookLists ==
    { <<HookA>>, <<HookB>>, <<HookA, HookB>>, <<HookB, HookA>>,
      <<HookC>>, <<HookC, HookB>>, <<HookC, HookA, HookB>> }

HookTexts == { <<>>, <<"1">>, <<"a">>, <<"1", ",", "1">> }

HookTypes == {"int", "[]int", "*int"}

ParseCalls ==
    [fn : {"parse"}, txt : ParseTexts, t : ParseTypes, hooks : {<<>>}]
        \cup [fn : {"parse"}, txt : HookTexts, t : HookTypes, hooks : HookLists]

\* texts handed to Split: a letter, the separator, and group characters
SplitTexts == TextsUpTo({"a", ",", "[", "]", "{", "}", "\""}, MaxSplit)

SplitCalls == [fn : {"split"}, txt : SplitTexts, sep : {","}]

ParserInit ==
    /\ obj \in ParseCalls \cup SplitCalls
    /\ last = NoCall
    /\ calls = 0

\* the call is recorded with what it returned; the arguments stay as they are
Answer(op, val, err) ==
    /\ calls < MaxCalls
    /\ last' = [op |-> op, root |-> "none", path |-> obj.txt, value |-> Nil,
                val |-> val, err |-> err, pre |-> obj]
    /\ obj' = obj
    /\ calls' = calls + 1

ParseAnswer(r) == Answer("parse", r.val, r.err)

DoParse ==
    /\ obj.fn = "parse"
    /\ ParseAnswer(Parse(obj.txt, obj.t, obj.hooks))

DoSplit ==
    /\ obj.fn = "split"
    /\ Answer("split", Split(obj.txt, obj.sep), NoErr)

ParserNext == DoParse \/ DoSplit

ParserSpec == ParserInit /\ [][ParserNext]_vars

(***************************************************************************)
(* C16                                                                     *)
(***************************************************************************)

\* the positions of the supplied hooks whose target type is the requested one
Matching == {i \in 1..Len(obj.hooks) : obj.hooks[i].To = obj.t}

FirstMatching == obj.hooks[CHOOSE i \in Matching : \A j \in Matching : i <= j]

C16_Case ==
    /\ last.op = "parse"
    /\ obj.hooks # <<>>

\* C16: when a supplied hook has exactly the requested type, Parse returns what
\* the first such hook returns, its value or its error, and nothing else; when
\* no supplied hook has the requested type the result is that of Parse without
\* hooks.
C16_HookOverride ==
    C16_Case =>
        IF Matching # {}
        THEN IF FirstMatching.fails
             THEN last.val = Nil /\ last.err = "hook error"
             ELSE /\ last.err = NoErr
                  /\ last.val = [t |-> obj.t, by |-> FirstMatching.id, s |-> obj.txt]
        ELSE /\ last.val = Parse(obj.txt, obj.t, <<>>).val
             /\ last.err = Parse(obj.txt, obj.t, <<>>).err

\* the failing hook came first of two for int and its error was returned for a
\* text the built-in conversion accepts
C16_Witness ==
    /\ C16_Case
    /\ obj.hooks = <<HookB, HookA>>
    /\ obj.t = "int"
    /\ obj.txt = <<"1">>
    /\ last.err = "hook error"

(***************************************************************************)
(* C17                                                                     *)
(***************************************************************************)

\* the pieces of the text between its top-level commas
Pieces == Split(obj.txt, ",")

\* the result of parsing piece i into the type e
PieceAs(i, e) == Parse(Pieces[i], e, <<>>)

\* the pieces that do not parse into the type e
Failing(e) == {i \in 1..Len(Pieces) : PieceAs(i, e).err # NoErr}

C17_Case ==
    /\ last.op = "parse"
    /\ obj.hooks = <<>>
    /\ obj.t \in {"[]int", "[]string"}

EqualsIn(i) == {j \in 1..Len(Pieces[i]) : Pieces[i][j] = "="}

\* the pieces that are a key=value pair: those with a "="
Pairs == {i \in 1..Len(Pieces) : EqualsIn(i) # {}}

\* the first "=" of piece i
FirstEquals(i) == CHOOSE j \in EqualsIn(i) : \A k \in EqualsIn(i) : j <= k

KeyText(i) == SubSeq(Pieces[i], 1, FirstEquals(i) - 1)

ValueText(i) == SubSeq(Pieces[i], FirstEquals(i) + 1, Len(Pieces[i]))

KeyAs(i) == Parse(KeyText(i), TypeInfo(obj.t).key, <<>>)

ValueAs(i) == Parse(ValueText(i), Elem(obj.t), <<>>)

\* the pairs whose key or value does not parse
BadPairs == {i \in Pairs : KeyAs(i).err # NoErr \/ ValueAs(i).err # NoErr}

\* the last pair that gives the key k
LastFor(k) ==
    CHOOSE i \in Pairs :
        /\ KeyOf(KeyAs(i).val) = k
        /\ \A j \in Pairs : KeyOf(KeyAs(j).val) = k => j <= i

C18_Case ==
    /\ last.op = "parse"
    /\ obj.hooks = <<>>
    /\ Kind(obj.t) = "map"

\* the answer is the map of the pairs, or the error of a pair
MapOfThePairs ==
    IF BadPairs = {}
    THEN /\ last.err = NoErr
         /\ last.val.t = obj.t
         /\ ~last.val.nil
         /\ DOMAIN last.val.m = {KeyOf(KeyAs(i).val) : i \in Pairs}
         /\ \A k \in DOMAIN last.val.m : last.val.m[k] = ValueAs(LastFor(k)).val
    ELSE /\ last.val = Nil
         /\ \E i \in BadPairs : last.err \in {KeyAs(i).err, ValueAs(i).err} \ {NoErr}

\* the part of C18 about texts whose pieces have at most one "=": the pieces
\* without "=" are skipped, the others give the entries of a non-null map, and
\* a key or value that does not parse fails the whole Parse
C18_OneEquals ==
    (C18_Case /\ \A i \in 1..Len(Pieces) : Cardinality(EqualsIn(i)) <= 1) => MapOfThePairs

\* C18: Parse into a map type does not fail because a comma-delimited piece is
\* no key=value pair: such pieces are skipped and the result, a non-null map,
\* holds exactly the entries of the pieces that are pairs (none for the empty
\* text); a pair whose key or value text does not parse into the key or value
\* type makes the whole Parse fail.
C18_MapParse == C18_Case => MapOfThePairs

\* a piece without "=" was skipped beside a pair, and a pair whose value is no
\* number failed the whole map
C18_Skipped ==
    \/ /\ C18_Case
       /\ obj.t = "map[string]string"
       /\ obj.txt = <<"a", ",", "=">>
       /\ last.err = NoErr
       /\ last.val.m = (<<>> :> StrV(<<>>))
    \/ /\ C18_Case
       /\ obj.t = "map[string]int"
       /\ obj.txt = <<"a", "=", "a">>
       /\ last.err = "invalid syntax"

(***************************************************************************)
(* C19                                                                     *)
(***************************************************************************)

\* the groups open after the first n runes of txt: the quote character of an
\* open quotation ("" if none), and how many [ and { are still to be closed
RECURSIVE OpenAfter(_, _)
OpenAfter(txt, n) ==
    IF n = 0 THEN [q |-> "", brackets |-> 0, braces |-> 0]
    ELSE LET g == OpenAfter(txt, n - 1)
             r == txt[n]
         IN  IF r \in {"\"", "'", Backtick}
             THEN IF g.q = "" THEN [g EXCEPT !.q = r]
                  ELSE IF g.q = r THEN [g EXCEPT !.q = ""]
                  ELSE g
             ELSE IF g.q # "" THEN g
             ELSE IF r = "[" THEN [g EXCEPT !.brackets = @ + 1]
             ELSE IF r = "]" THEN [g EXCEPT !.brackets = IF @ > 0 THEN @ - 1 ELSE 0]
             ELSE IF r = "{" THEN [g EXCEPT !.braces = @ + 1]
             ELSE IF r = "}" THEN [g EXCEPT !.braces = IF @ > 0 THEN @ - 1 ELSE 0]
             ELSE g

NoneOpen(g) == g.q = "" /\ g.brackets = 0 /\ g.braces = 0

\* the separators of obj.txt with no group open
Boundaries ==
    {i \in 1..Len(obj.txt) : obj.txt[i] = obj.sep /\ NoneOpen(OpenAfter(obj.txt, i - 1))}

\* the k-th boundary, with the ends of the text as boundary 0 and the last one
Boundary(k) ==
    IF k = 0 THEN 0
    ELSE IF k > Cardinality(Boundaries) THEN Len(obj.txt) + 1
    ELSE CHOOSE i \in Boundaries : Cardinality({j \in Boundaries : j < i}) = k - 1

\* the result is the text cut at the boundaries
CutAtBoundaries ==
    /\ Len(last.val) = Cardinality(Boundaries) + 1
    /\ \A k \in 1..Len(last.val) :
           last.val[k] = SubSeq(obj.txt, Boundary(k - 1) + 1, Boundary(k) - 1)

\* no [ is opened inside [...] and no { inside {...}
NoSameKindNesting ==
    \A n \in 0..Len(obj.txt) :
        /\ OpenAfter(obj.txt, n).brackets <= 1
        /\ OpenAfter(obj.txt, n).braces <= 1

\* the part of C19 about groups that do not hold a group of their own kind: a
\* separator is a boundary exactly when no group is open, and the result has
\* one element more than there are boundaries
C19_FlatGroups == (last.op = "split" /\ NoSameKindNesting) => CutAtBoundaries

\* C19: Split treats a separator as a boundary exactly when no group (quotes,
\* [...] or {...}) is open, nested groups counted, so a separator after an inner
\* group closes and before its enclosing group closes is no boundary; the result
\* has one element more than there are boundaries, empty elements included.
C19_SplitGrouping == last.op = "split" => CutAtBoundaries

\* a text with two boundaries, one of them at its end, and a separator inside a
\* bracket group
C19_Flat ==
    /\ last.op = "split"
    /\ \/ /\ obj.txt = <<"a", ",", ",">>
          /\ last.val = <<<<"a">>, <<>>, <<>>>>
       \/ /\ obj.txt = <<"[", ",", "]", ",", "a">>
          /\ last.val = <<<<"[", ",", "]">>, <<"a">>>>

(***************************************************************************)
(* C20                                                                     *)
(***************************************************************************)

\* what a path denotes in the record o, read off the record without a walk:
\* "value" for a non-null value, "absent" where a reference, map or sequence on
\* the way is null, the index is at or past the length or the key is not in the
\* map, "unknown" for a field that is not there or not public, and "none" for a
\* path that denotes nothing
Denotes(o, path) ==
    CASE path = PName -> "value"
      [] path = PAge -> IF o.fv.Age.nil THEN "absent" ELSE "value"
      [] path = PAddress -> IF o.fv.Address.nil THEN "absent" ELSE "value"
      [] path = PAddress \o Dot \o PZip -> IF o.fv.Address.nil THEN "absent" ELSE "value"
      [] path = PTags -> IF o.fv.Tags.nil THEN "absent" ELSE "value"
      [] path = PTags \o Br(<<"0">>) -> IF Len(o.fv.Tags.e) > 0 THEN "value" ELSE "absent"
      [] path = PTags \o Br(<<"2">>) -> IF Len(o.fv.Tags.e) > 2 THEN "value" ELSE "absent"
      [] path = PTags \o Br(<<>>) -> "absent"
      [] path = PCodes \o Br(<<"1">>) -> "value"
      [] path = PMeta -> IF o.fv.Meta.nil THEN "absent" ELSE "value"
      [] path = PMeta \o Br(<<"\"","a","\"">>) ->
             IF <<"a">> \in DOMAIN o.fv.Meta.m THEN "value" ELSE "absent"
      [] path = PMeta \o Br(<<"K">>) ->
             IF <<"K">> \in DOMAIN o.fv.Meta.m THEN "value" ELSE "absent"
      [] path \in {PSecret, PNope} -> "unknown"
      [] OTHER -> "none"

C20_Case == last.op = "exists" /\ last.root \in {"ptr", "val"}

\* the answer of Exists is the one the path's denotation asks for
AnswersDenotes ==
    /\ last.val = TRUE <=> Denotes(last.pre, last.path) = "value"
    /\ last.val = TRUE => last.err = NoErr
    /\ Denotes(last.pre, last.path) = "absent" => last.val = FALSE /\ last.err = NoErr
    /\ Denotes(last.pre, last.path) = "unknown" => last.val = FALSE /\ last.err # NoErr

\* the calls on which Exists is led astray by the lower-casing of a map key, by
\* the index into a sequence of a root passed by value, or by a negative index
Astray ==
    \/ last.path = PMeta \o Br(<<"K">>)
    \/ last.path = PTags \o Br(<<"-","1">>)
    \/ last.root = "val" /\ last.path \in {PTags \o Br(<<"0">>), PTags \o Br(<<"2">>)}

\* the part of C20 that holds: on every other call Exists answers as C20 says
C20_Otherwise == (C20_Case /\ ~Astray) => AnswersDenotes

\* C20: Exists returns true exactly when the path resolves without error to a
\* non-null value; it returns false and no error when a reference or map on the
\* path is null, when the index into a growable sequence is at or past its
\* length, or when the map key is missing; it returns false and an error for a
\* field that is unknown or not public.
C20_Exists == C20_Case => AnswersDenotes

\* an index past the length was reported absent, and an element was found
C20_Found ==
    /\ C20_Case
    /\ last.root = "ptr"
    /\ \/ last.path = PTags \o Br(<<"2">>) /\ Len(last.pre.fv.Tags.e) = 2
             /\ last.val = FALSE /\ last.err = NoErr
       \/ last.path = PTags \o Br(<<"0">>) /\ last.val = TRUE

(***************************************************************************)
(* C21                                                                     *)
(***************************************************************************)

\* the entry of map under key, null when there is none
EntryOf(map, key) == IF key \in DOMAIN map.m THEN map.m[key] ELSE Nil

\* paths that end in a sequence element or in a map entry
EntryPaths ==
    KeyPaths \cup {PProps \o Br(Quoted("\"", <<"k">>)), PLabels \o Br(<<"0">>),
                   Dot \o PMeta \o Br(<<"a">>) \o Dot}

\* what the record o holds in the element or entry that path ends in
EntryAt(o, path) ==
    CASE path \in Spellings(PMeta, <<"a">>) \cup {Dot \o PMeta \o Br(<<"a">>) \o Dot} ->
             EntryOf(o.fv.Meta, <<"a">>)
      [] path \in Spellings(PMeta, <<"a", ".", "b">>) -> EntryOf(o.fv.Meta, <<"a", ".", "b">>)
      [] path \in Spellings(PIndex, <<"0">>) -> EntryOf(o.fv.Index, 0)
      [] path = PProps \o Br(Quoted("\"", <<"k">>)) -> EntryOf(o.fv.Props, <<"k">>)
      [] OTHER -> o.fv.Labels.e[1]

\* paths that end in an entry of the map of integers
MetaEntryPaths ==
    Spellings(PMeta, <<"a">>) \cup Spellings(PMeta, <<"a", ".", "b">>)
        \cup {Dot \o PMeta \o Br(<<"a">>) \o Dot}

\* the writes on which the reflection library raises a fault inside the
\* helper: no value for a sequence element, and a map for an integer entry
Faulting ==
    /\ last.op = "set"
    /\ \/ last.path = PLabels \o Br(<<"0">>) /\ last.value = Nil
       \/ last.path \in MetaEntryPaths /\ last.value # Nil /\ Kind(last.value.t) = "map"

C21_Case ==
    /\ last.op = "set"
    /\ last.path \in EntryPaths
    /\ last.value # Nil
    /\ last.err = NoErr

\* the write that returned no error has stored what it returned
Stored ==
    /\ last.val # Nil
    /\ EntryAt(obj, last.path) = last.val

\* the part of C21 about values that are no map: a write into an element or an
\* entry that returns no error has stored the value, and the fault of a
\* missing value for an element is returned as an error
C21_OtherValues ==
    /\ (C21_Case /\ Kind(last.value.t) # "map") => Stored
    /\ (Faulting /\ last.value = Nil) => (last.err # NoErr /\ obj = last.pre)

\* C21: a fault raised while a value is assigned into a sequence element or a
\* map entry is returned by Set as an error, and Set never returns without
\* error from such a write when the value was not stored.
C21_FaultsAreErrors ==
    /\ C21_Case => Stored
    /\ Faulting => last.err # NoErr

\* an integer was stored in an entry, and a missing value for an element came
\* back as an error
C21_Trapped ==
    \/ /\ C21_Case
       /\ last.path = PMeta \o Br(<<"a">>)
       /\ last.value = IntV(5)
       /\ obj.fv.Meta.m[<<"a">>] = IntV(5)
    \/ /\ Faulting
       /\ last.value = Nil
       /\ last.err # NoErr

(***************************************************************************)
(* C22                                                                     *)
(***************************************************************************)

C22_Case ==
    /\ last.op = "parse"
    /\ obj.hooks = <<>>
    /\ obj.t = "map[string]string"

\* the last piece with a "=" whose text before the first "=" is key
LastWithKey(key) ==
    CHOOSE i \in Pairs : KeyText(i) = key /\ \A j \in Pairs : KeyText(j) = key => j <= i

\* the part of C22 about pieces with one "=": the text before it is the key
\* and the text after it the value
C22_OneEquals ==
    C22_Case =>
        \A i \in Pairs :
            Cardinality(EqualsIn(i)) = 1 =>
                /\ KeyText(i) \in DOMAIN last.val.m
                /\ Cardinality(EqualsIn(LastWithKey(KeyText(i)))) = 1 =>
                       last.val.m[KeyText(i)] = StrV(ValueText(LastWithKey(KeyText(i))))

\* C22: Parse into a map of texts cuts each comma-delimited piece once, at its
\* first "=": the text before it is the key and everything after it, further
\* "=" included, is the value.
C22_FirstEquals ==
    C22_Case =>
        /\ last.err = NoErr
        /\ DOMAIN last.val.m = {KeyText(i) : i \in Pairs}
        /\ \A i \in Pairs :
               last.val.m[KeyText(i)] = StrV(ValueText(LastWithKey(KeyText(i))))

(***************************************************************************)
(* C23                                                                     *)
(***************************************************************************)

\* the fields of the record that are null in the graph o, by their paths
NullFields(o) ==
    {path \in {PAge, PAddress, PTags, PMeta} :
        CASE path = PAge -> o.fv.Age.nil
          [] path = PAddress -> o.fv.Address.nil
          [] path = PTags -> o.fv.Tags.nil
          [] OTHER -> o.fv.Meta.nil}

\* the default-constructed value of the field that path names: a reference
\* to zero, a reference to an address with its declared default, an empty
\* sequence, an empty map
FreshAt(path) ==
    CASE path = PAge -> [t |-> "*int", nil |-> FALSE, p |-> IntV(0)]
      [] path = PAddress ->
             [t |-> "*Address", nil |-> FALSE,
              p |-> [t |-> "Address", fv |-> [City |-> StrV(<<>>), Zip |-> IntV(99)]]]
      [] path = PTags -> [t |-> "[]string", nil |-> FALSE, e |-> <<>>]
      [] OTHER -> [t |-> "map[string]int", nil |-> FALSE, m |-> <<>>]

\* the last segment names a null field and carries a bracket payload
BracketedOnNull(o, path) ==
    \/ o.fv.Tags.nil /\ path \in {PTags \o Br(<<"0">>), PTags \o Br(<<"2">>), PTags \o Br(<<>>)}
    \/ o.fv.Meta.nil /\ path \in {PMeta \o Br(<<"\"","a","\"">>), PMeta \o Br(<<"K">>)}

\* the call went through the null Address to its Zip
ThroughNull ==
    /\ last.path = PAddress \o Dot \o PZip
    /\ last.pre.fv.Address.nil
    /\ last.root \in {"ptr", "val"}
    /\ last.op \in {"get", "create", "set"}
    /\ last.op \in {"create", "set"} => last.root = "ptr"

\* the Address was constructed with its defaults and stored, and the walk went
\* on to Zip: Get and Create return the declared default of Zip, a Set that
\* returns no error has written Zip in the stored Address
Constructed ==
    /\ last.op \in {"get", "create"} =>
           /\ last.err = NoErr
           /\ last.val = IntV(99)
           /\ obj = [last.pre EXCEPT !.fv.Address = FreshAt(PAddress)]
    /\ (last.op = "set" /\ last.err = NoErr) =>
           /\ ~obj.fv.Address.nil
           /\ obj.fv.Address.p.fv.City = StrV(<<>>)
           /\ obj.fv.Address.p.fv.Zip = last.val
           /\ obj = [last.pre EXCEPT !.fv.Address = obj.fv.Address]

\* a Get whose last segment is a null field returns null and stores nothing
GetLeavesNull ==
    /\ last.err = NoErr
    /\ IsNil(last.val)
    /\ obj = last.pre

\* the name of the field that path names
FieldId(path) ==
    CASE path = PAge -> "Age"
      [] path = PAddress -> "Address"
      [] path = PTags -> "Tags"
      [] OTHER -> "Meta"

\* a Create whose last segment is a null field stores and returns a fresh value
CreateStores ==
    /\ last.err = NoErr
    /\ last.val = FreshAt(last.path)
    /\ obj = [last.pre EXCEPT !.fv[FieldId(last.path)] = FreshAt(last.path)]

PAppend == PTags \o Br(<<>>)

\* the sequence has one element more, the old ones are unchanged, and the rest
\* of the graph is as it was
GrownByOne ==
    /\ Len(obj.fv.Tags.e) = Len(last.pre.fv.Tags.e) + 1
    /\ \A j \in 1..Len(last.pre.fv.Tags.e) : obj.fv.Tags.e[j] = last.pre.fv.Tags.e[j]
    /\ ~obj.fv.Tags.nil
    /\ obj = [last.pre EXCEPT !.fv.Tags = obj.fv.Tags]

\* the element at the old length
Appended == obj.fv.Tags.e[Len(last.pre.fv.Tags.e) + 1]

\* C24: empty brackets on a growable sequence mean the index that is the
\* current length, in every mode: a Set that returns no error has made the
\* sequence one longer with the value at the old length and the earlier
\* elements unchanged (Get and Create append a default element likewise), and
\* Exists reports absent, without error and without growing the sequence.
C24_Append ==
    /\ (last.op = "set" /\ last.root = "ptr" /\ last.path = PAppend /\ last.err = NoErr) =>
           /\ GrownByOne
           /\ Appended = last.val
           /\ last.value.t = "string" => Appended = last.value
    /\ (last.op \in {"get", "create"} /\ last.root = "ptr" /\ last.path = PAppend) =>
           /\ last.err = NoErr
           /\ GrownByOne
           /\ Appended = StrV(<<>>)
           /\ last.val = StrV(<<>>)
    /\ (last.op = "exists" /\ last.root \in {"ptr", "val"} /\ last.path = PAppend) =>
           /\ last.val = FALSE
           /\ last.err = NoErr
           /\ obj = last.pre

\* a text was appended to a sequence of two, and Exists found nothing at the
\* length of a sequence of three
C24_Witness ==
    \/ /\ last.op = "set"
       /\ last.root = "ptr"
       /\ last.path = PAppend
       /\ last.value = StrV(<<"x">>)
       /\ Len(last.pre.fv.Tags.e) = 2
       /\ obj.fv.Tags.e = last.pre.fv.Tags.e \o <<StrV(<<"x">>)>>
    \/ /\ last.op = "exists"
       /\ last.path = PAppend
       /\ Len(last.pre.fv.Tags.e) = 3
       /\ last.val = FALSE

(***************************************************************************)
(* C25                                                                     *)
(***************************************************************************)

PKey == PMeta \o Br(<<"K">>)

\* the part of C25 about a key without upper-case letters: the entry is
\* stored and found under the key as written, quotes removed
C25_LowerKey ==
    /\ (last.op = "set" /\ last.root = "ptr" /\ last.path = PMeta \o Br(<<"\"","a","\"">>)
          /\ last.value = IntV(5)) =>
           (last.err = NoErr /\ EntryOf(obj.fv.Meta, <<"a">>) = IntV(5))
    /\ (last.op = "get" /\ last.root = "ptr" /\ last.path = PMeta \o Br(<<"\"","a","\"">>)
          /\ <<"a">> \in DOMAIN last.pre.fv.Meta.m) =>
           (last.err = NoErr /\ last.val = last.pre.fv.Meta.m[<<"a">>])

\* C25: a bracket payload that is no number is the map key with only its
\* surrounding quotes removed, its letter case kept: Set on m[K] stores the
\* entry under K and leaves no entry under another key, and Get and Exists on
\* m[K] find the entry whose key is K.
C25_KeyCase ==
    /\ (last.op = "set" /\ last.root = "ptr" /\ last.path = PKey /\ last.value = IntV(5)) =>
           /\ last.err = NoErr
           /\ EntryOf(obj.fv.Meta, <<"K">>) = IntV(5)
           /\ DOMAIN obj.fv.Meta.m = DOMAIN last.pre.fv.Meta.m \cup {<<"K">>}
    /\ (last.op = "get" /\ last.root = "ptr" /\ last.path = PKey
          /\ <<"K">> \in DOMAIN last.pre.fv.Meta.m) =>
           /\ last.err = NoErr
           /\ last.val = last.pre.fv.Meta.m[<<"K">>]
           /\ obj = last.pre
    /\ (last.op = "exists" /\ last.root = "ptr" /\ last.path = PKey
          /\ <<"K">> \in DOMAIN last.pre.fv.Meta.m) =>
           /\ last.err = NoErr
           /\ last.val = TRUE

(***************************************************************************)
(* C26                                                                     *)
(***************************************************************************)

\* the positions of the supplied hooks whose target type is the element type
ElemHooks == {i \in 1..Len(obj.hooks) : obj.hooks[i].To = Elem(obj.t)}

FirstElemHook == obj.hooks[CHOOSE i \in ElemHooks : \A j \in ElemHooks : i <= j]

\* a sequence is asked for, with a hook for its element type and none for the
\* sequence type itself
C26_Case ==
    /\ last.op = "parse"
    /\ obj.t = "[]int"
    /\ obj.txt # <<>>
    /\ ElemHooks # {}
    /\ Matching = {}

\* what the code does in that case: the result is that of Parse without hooks
C26_HooksDropped ==
    C26_Case =>
        /\ last.val = Parse(obj.txt, obj.t, <<>>).val
        /\ last.err = Parse(obj.txt, obj.t, <<>>).err

\* C26: when Parse is called with hooks and a composite type, every element is
\* converted by the first supplied hook whose type is exactly the element type,
\* not by the built-in conversion: the result holds what the hook returns for
\* each piece, or the call fails with the hook's error.
C26_HooksInComposites ==
    C26_Case =>
        IF FirstElemHook.fails
        THEN last.val = Nil /\ last.err = "hook error"
        ELSE /\ last.err = NoErr
             /\ Len(last.val.e) = Len(Pieces)
             /\ \A i \in 1..Len(Pieces) :
                    last.val.e[i] = [t |-> "int", by |-> FirstElemHook.id, s |-> Pieces[i]]

(***************************************************************************)
(* C27                                                                     *)
(***************************************************************************)

\* paths without a segment: the empty text, and texts of separators only
NoSegments == {<<>>, Dot, Dot \o Dot}

\* the answer of an entry point that did nothing: val and no error, the root
\* as it was handed in
Nothing(val, root) == [val |-> val, err |-> NoErr, obj |-> root]

\* C27: a path without segments makes Get, Set and Create return null and no
\* error and Exists return false and no error, and the graph is unchanged.
C27_NoSegments ==
    /\ (Walked /\ last.path = <<>>) =>
           /\ last.err = NoErr
           /\ NoResult
           /\ obj = last.pre
    /\ \A path \in NoSegments :
           /\ Get(Ref(obj), path) = Nothing(Nil, Ref(obj))
           /\ Get(obj, path) = Nothing(Nil, obj)
           /\ Create(Ref(obj), path) = Nothing(Nil, Ref(obj))
           /\ Exists(Ref(obj), path) = Nothing(FALSE, Ref(obj))
           /\ Exists(obj, path) = Nothing(FALSE, obj)
           /\ \A value \in Values : Set(Ref(obj), path, value) = Nothing(Nil, Ref(obj))

\* an Exists and a Set with the empty path on a record that holds values
C27_Witness ==
    /\ Walked
    /\ last.path = <<>>
    /\ last.pre = FilledUser
    /\ \/ last.op = "exists" /\ last.val = FALSE
       \/ last.op = "set" /\ last.value = IntV(5) /\ last.val = Nil /\ obj = FilledUser

(***************************************************************************)
(* C28                                                                     *)
(***************************************************************************)

\* Get, Set or Create was let through to the walk and returned an error
C28_Case ==
    /\ Walked
    /\ last.op \in {"get", "set", "create"}
    /\ last.err # NoErr

\* the part of C28 that holds: a failed call changes no field that held a
\* value before the call
C28_HeldFields ==
    C28_Case =>
        \A id \in DOMAIN last.pre.fv :
            ~IsNil(last.pre.fv[id]) => obj.fv[id] = last.pre.fv[id]

\* C28: a Get, Set or Create that returns an error leaves the graph as it was:
\* nothing that was default-constructed during the failed walk remains stored.
C28_FailureFrame == C28_Case => obj = last.pre

(***************************************************************************)
(* C29                                                                     *)
(***************************************************************************)

PNegative == PTags \o Br(<<"-","1">>)

\* a Set on a reference root whose last segment is the sequence Tags with a
\* bracket payload, and which returned no error
C29_Case ==
    /\ ByRefSet
    /\ last.path \in {PTags \o Br(<<"0">>), PTags \o Br(<<"2">>), PTags \o Br(<<>>),
                      PNegative, PTags \o Br(<<"a">>)}
    /\ last.err = NoErr

\* the value was stored in one element: the graph differs from the one before
\* in the sequence only, one element holds what Set returned, and every
\* element that was there before and is not that one is unchanged
StoredInOne ==
    /\ obj = [last.pre EXCEPT !.fv.Tags = obj.fv.Tags]
    /\ \E i \in 1..Len(obj.fv.Tags.e) :
           /\ obj.fv.Tags.e[i] = last.val
           /\ \A j \in 1..Len(last.pre.fv.Tags.e) : j # i => obj.fv.Tags.e[j] = last.pre.fv.Tags.e[j]

\* the part of C29 about the other payloads: with an index that is not
\* negative, or with empty brackets, a Set that returns no error has stored
\* the value in one element
C29_OtherIndexes == (C29_Case /\ last.path # PNegative) => StoredInOne

\* C29: a Set on a sequence whose last segment carries a bracket payload and
\* which returns no error has stored the value in exactly one element; a
\* negative index is rejected with an error.
C29_StoredOrRejected ==
    /\ C29_Case => StoredInOne
    /\ (ByRefSet /\ last.path = PNegative) => last.err # NoErr

(***************************************************************************)
(* C30                                                                     *)
(***************************************************************************)

\* C30: a segment that equals the name of a public field without regard to
\* case resolves to that field, also when a non-public field with such a name
\* is declared before it: Get returns the public field, Exists finds it, and
\* Set of a text writes it and leaves the non-public field alone.
C30_PublicField ==
    (last.op # "none" /\ last.path = PNote) =>
        /\ last.err = NoErr
        /\ obj.fv.note = last.pre.fv.note
        /\ last.op = "get" => (last.val = last.pre.fv.Note /\ obj = last.pre)
        /\ last.op = "exists" => (last.val = TRUE /\ obj = last.pre)
        /\ (last.op = "set" /\ last.value = StrV(<<"x">>)) =>
               (last.val = StrV(<<"x">>) /\ obj.fv.Note = StrV(<<"x">>))

\* what the code does on that segment: every operation is refused because of
\* the non-public field, and nothing is read or written
C30_Refused ==
    (last.op # "none" /\ last.path = PNote) =>
        /\ last.err = "field note is not exported"
        /\ obj = last.pre

====
